---- MODULE Spec2Model ----
(***************************************************************************)
(* Model of TestMind-AI's resilient extraction path:                       *)
(*   - LangChainExtractor._parse_ai_response / extract_async               *)
(*     (src/app/requirements_parser/extractors/langchain_extractor.py)     *)
(*   - AITestCaseGenerationService.generate_test_suite and its stages      *)
(*     (src/app/test_case_generator/service.py)                            *)
(*   - DocumentFormatDetector and SmartDocumentDetector                    *)
(*     (src/app/requirements_parser/utils)                                 *)
(*   - DocumentParsingService, extract_batch, extract_with_accuracy and    *)
(*     validate_extraction_quality (src/app/requirements_parser)           *)
(*   - Document and the OpenAPI, Markdown, PDF, Word and Prompt parsers    *)
(*     (src/app/requirements_parser/models, .../parsers)                   *)
(*   - DatabaseManager and the module-level manager                        *)
(*     (src/app/core/database.py)                                          *)
(*   - the asynchronous generation tasks and their store                   *)
(*     (src/app/api/v1/tests.py)                                           *)
(*                                                                         *)
(* Text is a sequence of symbols.  A symbol is either one character of the *)
(* source text ("[", "q" for the double quote, " " for white space ...) or *)
(* one literal the code searches for as a whole ("<think>", the code       *)
(* fence, a key name, a keyword).  CharLen gives the number of characters  *)
(* a symbol stands for, for the places where the code measures a string.   *)
(***************************************************************************)
EXTENDS Integers, Sequences, FiniteSets, TLC

Q == "q"
EQ == "eq"
WS == " "
ThinkOpen == "<think>"
ThinkClose == "</think>"
Fence == "fence"
JsonTag == "json"
PythonTag == "python"
Digits == {"0", "1", "2", "3", "4", "5", "6", "7", "8", "9"}

(* ---------------------------------------------------------------------- *)
(* str helpers                                                            *)
(* ---------------------------------------------------------------------- *)

Take(s, n) == SubSeq(s, 1, IF n < Len(s) THEN n ELSE Len(s))

Drop(s, n) == SubSeq(s, n + 1, Len(s))

Contains(s, sym) == \E i \in 1..Len(s) : s[i] = sym

\* str.find of a one-symbol literal at or after position from; 0 when absent
FindFrom(s, sym, from) ==
  IF \E i \in from..Len(s) : s[i] = sym
  THEN CHOOSE i \in from..Len(s) : s[i] = sym /\ \A j \in from..(i - 1) : s[j] # sym
  ELSE 0

\* str.find of a literal made of several symbols; 0 when absent
FindSeqFrom(s, lit, from) ==
  LET hit(i) == i + Len(lit) - 1 <= Len(s) /\ SubSeq(s, i, i + Len(lit) - 1) = lit IN
  IF \E i \in from..Len(s) : hit(i)
  THEN CHOOSE i \in from..Len(s) : hit(i) /\ \A j \in from..(i - 1) : ~hit(j)
  ELSE 0

StartsWith(s, lit) == Len(s) >= Len(lit) /\ SubSeq(s, 1, Len(lit)) = lit

EndsWith(s, lit) == Len(s) >= Len(lit) /\ SubSeq(s, Len(s) - Len(lit) + 1, Len(s)) = lit

\* str.strip()
Strip(s) ==
  IF \A i \in 1..Len(s) : s[i] = WS THEN <<>>
  ELSE LET a == CHOOSE i \in 1..Len(s) : s[i] # WS /\ \A j \in 1..(i - 1) : s[j] = WS
           b == CHOOSE i \in 1..Len(s) : s[i] # WS /\ \A j \in (i + 1)..Len(s) : s[j] = WS
       IN SubSeq(s, a, b)

\* a local variable of the code: the value is computed once, then named
With(v, F(_)) == F(v)

(* ---------------------------------------------------------------------- *)
(* json.loads / json.dumps                                                *)
(* A JSON value is a record [k, v]: k names the Python type json.loads     *)
(* builds, v holds its content.                                            *)
(* ---------------------------------------------------------------------- *)

JNum(ds) == [k |-> "num", v |-> ds]
JStr(cs) == [k |-> "str", v |-> cs]
JArr(es) == [k |-> "arr", v |-> es]
JObj(ms) == [k |-> "obj", v |-> ms]
JNull == [k |-> "null", v |-> <<>>]

IsArr(x) == x.k = "arr"
IsObj(x) == x.k = "obj"
IsStr(x) == x.k = "str"
IsNum(x) == x.k = "num"
IsNull(x) == x.k = "null"

\* == on two values json.loads built: lists element by element, dicts key by key
RECURSIVE JEq(_, _)
JEq(a, b) ==
  /\ a.k = b.k
  /\ Len(a.v) = Len(b.v)
  /\ IF IsArr(a) THEN \A i \in 1..Len(a.v) : JEq(a.v[i], b.v[i])
     ELSE IF IsObj(a)
     THEN \A i \in 1..Len(a.v) : \E j \in 1..Len(b.v) :
            a.v[i][1] = b.v[j][1] /\ JEq(a.v[i][2], b.v[j][2])
     ELSE a.v = b.v

\* json.JSONDecodeError
NoParse == [ok |-> FALSE, val |-> JNum(<<>>), pos |-> 0, raised |-> FALSE]

\* a run of digits longer than int() converts: the symbol stands for more
\* than sys.int_info.default_max_str_digits digits
BigInt == "bigint"

\* the ValueError of int(), which is no JSONDecodeError
Overflow == [ok |-> FALSE, val |-> JNum(<<>>), pos |-> 0, raised |-> TRUE]

Parsed(val, pos) == [ok |-> TRUE, val |-> val, pos |-> pos, raised |-> FALSE]

RECURSIVE SkipWS(_, _)
SkipWS(s, i) == IF i <= Len(s) /\ s[i] = WS THEN SkipWS(s, i + 1) ELSE i

\* the escapes of a string literal decoded / encoded
RECURSIVE Unescape(_)
Unescape(cs) ==
  IF cs = <<>> THEN <<>>
  ELSE <<IF Head(cs) = EQ THEN Q ELSE Head(cs)>> \o Unescape(Tail(cs))

RECURSIVE Escape(_)
Escape(cs) ==
  IF cs = <<>> THEN <<>>
  ELSE <<IF Head(cs) = Q THEN EQ ELSE Head(cs)>> \o Escape(Tail(cs))

\* dict assignment: a repeated key keeps its place and takes the new value
DictPut(ms, key, val) ==
  IF \E i \in 1..Len(ms) : ms[i][1] = key
  THEN [i \in 1..Len(ms) |-> IF ms[i][1] = key THEN <<key, val>> ELSE ms[i]]
  ELSE Append(ms, <<key, val>>)

ParseString(s, i) ==
  IF i > Len(s) \/ s[i] # Q THEN NoParse
  ELSE LET j == FindFrom(s, Q, i + 1) IN
       IF j = 0 THEN NoParse
       ELSE Parsed(JStr(Unescape(SubSeq(s, i + 1, j - 1))), j + 1)

RECURSIVE NumEnd(_, _)
NumEnd(s, i) == IF i <= Len(s) /\ s[i] \in Digits THEN NumEnd(s, i + 1) ELSE i

ParseNumber(s, i) ==
  LET e == NumEnd(s, i) IN
  IF e = i \/ (s[i] = "0" /\ e > i + 1) THEN NoParse
  ELSE Parsed(JNum(SubSeq(s, i, e - 1)), e)

RECURSIVE ParseValue(_, _)
RECURSIVE ParseElems(_, _, _)
RECURSIVE ParseMembers(_, _, _)

\* the elements of an array after "[", the first element starting at i
ParseElems(s, i, acc) ==
  With(ParseValue(s, i), LAMBDA r :
    IF ~r.ok THEN r
    ELSE With(SkipWS(s, r.pos), LAMBDA k :
           IF k > Len(s) THEN NoParse
           ELSE IF s[k] = "," THEN ParseElems(s, SkipWS(s, k + 1), Append(acc, r.val))
           ELSE IF s[k] = "]" THEN Parsed(JArr(Append(acc, r.val)), k + 1)
           ELSE NoParse))

\* the members of an object after "{", the first key starting at i
ParseMembers(s, i, acc) ==
  With(ParseString(s, i), LAMBDA key :
    IF ~key.ok THEN NoParse
    ELSE With(SkipWS(s, key.pos), LAMBDA c :
      IF c > Len(s) \/ s[c] # ":" THEN NoParse
      ELSE With(ParseValue(s, SkipWS(s, c + 1)), LAMBDA r :
        IF ~r.ok THEN r
        ELSE With(SkipWS(s, r.pos), LAMBDA k :
             With(DictPut(acc, key.val.v, r.val), LAMBDA ms :
               IF k > Len(s) THEN NoParse
               ELSE IF s[k] = "," THEN ParseMembers(s, SkipWS(s, k + 1), ms)
               ELSE IF s[k] = "}" THEN Parsed(JObj(ms), k + 1)
               ELSE NoParse)))))

ParseValue(s, i) ==
  IF i > Len(s) THEN NoParse
  ELSE IF s[i] = Q THEN ParseString(s, i)
  ELSE IF s[i] \in Digits THEN ParseNumber(s, i)
  ELSE IF s[i] = BigInt THEN Overflow
  ELSE IF s[i] = "null" THEN Parsed(JNull, i + 1)
  ELSE IF s[i] = "[" THEN
         With(SkipWS(s, i + 1), LAMBDA j :
           IF j <= Len(s) /\ s[j] = "]" THEN Parsed(JArr(<<>>), j + 1)
           ELSE ParseElems(s, j, <<>>))
  ELSE IF s[i] = "{" THEN
         With(SkipWS(s, i + 1), LAMBDA j :
           IF j <= Len(s) /\ s[j] = "}" THEN Parsed(JObj(<<>>), j + 1)
           ELSE ParseMembers(s, j, <<>>))
  ELSE NoParse

\* json.loads: one value, white space around it, nothing else; ok: the
\* value was returned, raised: an exception that is no JSONDecodeError
JsonLoads(s) ==
  With(ParseValue(s, SkipWS(s, 1)), LAMBDA r :
    IF r.ok /\ SkipWS(s, r.pos) > Len(s) THEN [ok |-> TRUE, val |-> r.val, raised |-> FALSE]
    ELSE [ok |-> FALSE, val |-> NoParse.val, raised |-> r.raised])

RECURSIVE JsonDumps(_)
RECURSIVE DumpElems(_)
RECURSIVE DumpMembers(_)

DumpElems(es) ==
  IF es = <<>> THEN <<>>
  ELSE JsonDumps(Head(es)) \o (IF Len(es) > 1 THEN <<",", WS>> ELSE <<>>) \o DumpElems(Tail(es))

DumpMembers(ms) ==
  IF ms = <<>> THEN <<>>
  ELSE <<Q>> \o Escape(Head(ms)[1]) \o <<Q, ":", WS>> \o JsonDumps(Head(ms)[2])
       \o (IF Len(ms) > 1 THEN <<",", WS>> ELSE <<>>) \o DumpMembers(Tail(ms))

\* json.dumps with the default separators
JsonDumps(x) ==
  IF IsNum(x) THEN x.v
  ELSE IF IsStr(x) THEN <<Q>> \o Escape(x.v) \o <<Q>>
  ELSE IF IsArr(x) THEN <<"[">> \o DumpElems(x.v) \o <<"]">>
  ELSE IF IsNull(x) THEN <<"null">>
  ELSE <<"{">> \o DumpMembers(x.v) \o <<"}">>

(* ---------------------------------------------------------------------- *)
(* LangChainExtractor._parse_ai_response                                  *)
(* ---------------------------------------------------------------------- *)

SnippetLen == 200

\* re.findall(open .*? close, s, re.DOTALL): from the leftmost open to the
\* nearest close after it, then on from behind that close
RECURSIVE FindSpans(_, _, _, _)
FindSpans(s, open, close, from) ==
  LET i == FindFrom(s, open, from) IN
  IF i = 0 THEN <<>>
  ELSE LET j == FindFrom(s, close, i + 1) IN
       IF j = 0 THEN <<>>
       ELSE <<SubSeq(s, i, j)>> \o FindSpans(s, open, close, j + 1)

\* the text after the <think> block is cut away
StripThink(c) ==
  With(FindFrom(c, ThinkClose, 1), LAMBDA think_end :
    IF Contains(c, ThinkOpen) /\ think_end # 0 THEN Strip(Drop(c, think_end)) ELSE c)

\* the markdown code fence is cut away: three ifs in a row, then strip
StripFence(c) ==
  With(IF StartsWith(c, <<Fence, JsonTag>>) THEN Drop(c, 2) ELSE c, LAMBDA c1 :
  With(IF StartsWith(c1, <<Fence>>) THEN Drop(c1, 1) ELSE c1, LAMBDA c2 :
    Strip(IF EndsWith(c2, <<Fence>>) THEN Take(c2, Len(c2) - 1) ELSE c2)))

CleanContent(content) == StripFence(StripThink(Strip(content)))

\* for match in json_matches: try: return json.loads(match)
RECURSIVE FirstLoadable(_)
FirstLoadable(spans) ==
  IF spans = <<>> THEN [ok |-> FALSE, val |-> NoParse.val, raised |-> FALSE]
  ELSE With(JsonLoads(Head(spans)), LAMBDA r :
         IF r.ok \/ r.raised THEN r ELSE FirstLoadable(Tail(spans)))

\* for match in json_matches: try: objects.append(json.loads(match))
RECURSIVE AllLoadable(_, _)
AllLoadable(spans, acc) ==
  IF spans = <<>> THEN [objects |-> acc, raised |-> FALSE]
  ELSE With(JsonLoads(Head(spans)), LAMBDA r :
         IF r.raised THEN [objects |-> <<>>, raised |-> TRUE]
         ELSE AllLoadable(Tail(spans), IF r.ok THEN Append(acc, r.val) ELSE acc))

\* ret: the value returned; branch: the return statement taken, or
\* "raised" when an exception left the function; stdout: what print() wrote
ParseAIResponse(content) ==
  IF Strip(content) = <<>>
  THEN [ret |-> JArr(<<>>), branch |-> "empty", stdout |-> <<>>]
  ELSE With(CleanContent(content), LAMBDA cleaned :
       With(JsonLoads(cleaned), LAMBDA direct :
       With(FirstLoadable(FindSpans(cleaned, "[", "]", 1)), LAMBDA arrays :
       With(AllLoadable(FindSpans(cleaned, "{", "}", 1), <<>>), LAMBDA scan :
         IF direct.ok THEN [ret |-> direct.val, branch |-> "direct", stdout |-> <<>>]
         ELSE IF direct.raised THEN [ret |-> JNull, branch |-> "raised", stdout |-> <<>>]
         ELSE IF arrays.ok THEN [ret |-> arrays.val, branch |-> "array", stdout |-> <<>>]
         ELSE IF arrays.raised THEN [ret |-> JNull, branch |-> "raised", stdout |-> <<>>]
         ELSE IF scan.raised THEN [ret |-> JNull, branch |-> "raised", stdout |-> <<>>]
         ELSE IF scan.objects # <<>>
         THEN [ret |-> JArr(scan.objects), branch |-> "objects", stdout |-> <<>>]
         ELSE [ret |-> JArr(<<>>), branch |-> "none",
               stdout |-> <<Take(cleaned, SnippetLen)>>]))))

(* ---------------------------------------------------------------------- *)
(* Requirement (models/requirement.py) and LangChainExtractor.extract_async *)
(* ---------------------------------------------------------------------- *)

\* len() of one symbol's text
CharLen(sym) ==
  CASE sym = "REQ-" -> 4
    [] sym = "R-1" -> 3
    [] sym = "test_cases" -> 10
    [] sym = "kwPositive" -> 4
    [] sym = "kwNegative" -> 4
    [] sym = "kwBoundary" -> 4
    [] sym = "import pytest" -> 13
    [] sym = "def test_" -> 9
    [] sym = "pytest" -> 6
    [] sym = "codeBody" -> 120
    [] sym = "skeletonHeader" -> 623
    [] sym = "skeletonTest" -> 818
    [] sym = "bigint" -> 4301
    [] sym = "Heading" -> 7
    [] sym = "paragraph" -> 120
    [] OTHER -> 1

RECURSIVE StrLen(_)
StrLen(cs) == IF cs = <<>> THEN 0 ELSE CharLen(Head(cs)) + StrLen(Tail(cs))

RequirementTypes ==
  {<<"functional">>, <<"non_functional">>, <<"user_story">>,
   <<"business_rule">>, <<"constraint">>, <<"assumption">>}

Priorities == {<<"critical">>, <<"high">>, <<"medium">>, <<"low">>}

DigitSym(d) == <<"0", "1", "2", "3", "4", "5", "6", "7", "8", "9">>[d + 1]

\* f"REQ-{n:03d}"
SequentialId(n) ==
  <<"REQ-", DigitSym((n \div 100) % 10), DigitSym((n \div 10) % 10), DigitSym(n % 10)>>

HasKey(ms, key) == \E i \in 1..Len(ms) : ms[i][1] = key

\* dict.get(key, default)
DictGet(ms, key, default) ==
  IF HasKey(ms, key) THEN ms[CHOOSE i \in 1..Len(ms) : ms[i][1] = key][2] ELSE default

\* validate_id: a str, not blank, at least 3 characters once stripped
ValidId(x) == IsStr(x) /\ Strip(x.v) # <<>> /\ StrLen(Strip(x.v)) >= 3

\* validate_title, validate_description: a str, not blank
ValidText(x) == IsStr(x) /\ Strip(x.v) # <<>>

\* acceptance_criteria: List[str]
ValidCriteria(x) == IsArr(x) /\ \A i \in 1..Len(x.v) : IsStr(x.v[i])

\* the keyword arguments extract_async hands to Requirement(...) for one map,
\* n requirements being built already
RequirementArgs(req_data, n) ==
  [id          |-> DictGet(req_data, <<"id">>, JStr(SequentialId(n + 1))),
   title       |-> DictGet(req_data, <<"title">>, JStr(<<>>)),
   description |-> DictGet(req_data, <<"description">>, JStr(<<>>)),
   type        |-> DictGet(req_data, <<"type">>, JStr(<<"functional">>)),
   priority    |-> DictGet(req_data, <<"priority">>, JStr(<<"medium">>)),
   acceptance_criteria |-> DictGet(req_data, <<"acceptance_criteria">>, JArr(<<>>))]

\* RequirementType(...), Priority(...) and the model's validators all accept
RequirementAccepts(a) ==
  /\ ValidId(a.id)
  /\ ValidText(a.title)
  /\ ValidText(a.description)
  /\ IsStr(a.type) /\ a.type.v \in RequirementTypes
  /\ IsStr(a.priority) /\ a.priority.v \in Priorities
  /\ ValidCriteria(a.acceptance_criteria)

\* the Requirement object built: the validators return the stripped text
Requirement(a) ==
  [id          |-> Strip(a.id.v),
   title       |-> Strip(a.title.v),
   description |-> Strip(a.description.v),
   type        |-> a.type.v,
   priority    |-> a.priority.v,
   acceptance_criteria |-> [i \in 1..Len(a.acceptance_criteria.v) |-> a.acceptance_criteria.v[i].v]]

\* what "for req_data in requirements_data" walks over: the elements of a
\* list, the keys of a dict, the characters of a str; a number raises
Iterable(data) == ~IsNum(data) /\ ~IsNull(data)

IterItems(data) ==
  IF IsArr(data) THEN data.v
  ELSE IF IsObj(data) THEN [i \in 1..Len(data.v) |-> JStr(data.v[i][1])]
  ELSE [i \in 1..Len(data.v) |-> JStr(<<data.v[i]>>)]

\* the conversion loop: raised as soon as one item is no dict or is refused
RECURSIVE ConvertAll(_, _)
ConvertAll(items, acc) ==
  IF items = <<>> THEN [raised |-> FALSE, reqs |-> acc]
  ELSE IF ~IsObj(Head(items)) THEN [raised |-> TRUE, reqs |-> <<>>]
  ELSE With(RequirementArgs(Head(items).v, Len(acc)), LAMBDA a :
         IF ~RequirementAccepts(a) THEN [raised |-> TRUE, reqs |-> <<>>]
         ELSE ConvertAll(Tail(items), Append(acc, Requirement(a))))

\* call: what _call_ai_api did, [raised, text].  Result: raised (the
\* Exception of lines 276-279) or the list of requirements; parse is what
\* _parse_ai_response did on the way
ExtractAsync(call) ==
  IF call.raised
  THEN [raised |-> TRUE, reqs |-> <<>>, parse |-> "not reached", stdout |-> <<>>]
  ELSE With(ParseAIResponse(call.text), LAMBDA p :
       With(IF p.branch # "raised" /\ Iterable(p.ret) THEN ConvertAll(IterItems(p.ret), <<>>)
            ELSE [raised |-> TRUE, reqs |-> <<>>], LAMBDA c :
         [raised |-> c.raised, reqs |-> c.reqs, parse |-> p.branch, stdout |-> p.stdout]))

(* ---------------------------------------------------------------------- *)
(* AITestCaseGenerationService: the stage converters (service.py)         *)
(* ---------------------------------------------------------------------- *)

\* _convert_requirements_to_analysis wrapped by _analyze_api_document: the
\* requirements are not read
ConvertRequirementsToAnalysis(requirements) ==
  [api_complexity |-> "medium", authentication_required |-> FALSE]

\* _convert_requirements_to_strategy wrapped by _generate_test_strategy: the
\* requirements are not read
ConvertRequirementsToStrategy(requirements) ==
  [positive_test_scenarios |-> 2, negative_test_scenarios |-> 2,
   boundary_test_scenarios |-> 2]

\* '; '.join(criteria)
RECURSIVE JoinCriteria(_)
JoinCriteria(cs) ==
  IF cs = <<>> THEN <<>>
  ELSE Head(cs) \o (IF Len(cs) > 1 THEN <<";", WS>> ELSE <<>>) \o JoinCriteria(Tail(cs))

\* f"{req.title}: {req.description}" and the acceptance criteria line
RequirementContent(req) ==
  req.title \o <<":", WS>> \o req.description
  \o (IF req.acceptance_criteria # <<>>
      THEN <<WS, "criteria:", WS>> \o JoinCriteria(req.acceptance_criteria)
      ELSE <<>>)

\* re.findall(r'\{.*?"test_cases".*?\[.*?\].*?\}', content, re.DOTALL)
RECURSIVE FindTestCasesSpans(_, _)
FindTestCasesSpans(s, from) ==
  LET i == FindFrom(s, "{", from)
      a == IF i = 0 THEN 0 ELSE FindSeqFrom(s, <<Q, "test_cases", Q>>, i + 1)
      b == IF a = 0 THEN 0 ELSE FindFrom(s, "[", a + 3)
      c == IF b = 0 THEN 0 ELSE FindFrom(s, "]", b + 1)
      d == IF c = 0 THEN 0 ELSE FindFrom(s, "}", c + 1)
  IN IF d = 0 THEN <<>>
     ELSE <<SubSeq(s, i, d)>> \o FindTestCasesSpans(s, d + 1)

\* re.sub of the three fence patterns, each with the white space after it
RECURSIVE RemoveFences(_)
RemoveFences(s) ==
  IF s = <<>> THEN <<>>
  ELSE IF Head(s) = Fence
       THEN LET t == IF Len(s) > 1 /\ s[2] \in {JsonTag, PythonTag} THEN Drop(s, 2) ELSE Tail(s)
            IN RemoveFences(SubSeq(t, SkipWS(t, 1), Len(t)))
       ELSE <<Head(s)>> \o RemoveFences(Tail(s))

\* re.sub(r',\s*}', '}') and re.sub(r',\s*]', ']')
RECURSIVE RemoveTrailingCommas(_)
RemoveTrailingCommas(s) ==
  IF s = <<>> THEN <<>>
  ELSE IF Head(s) = "," /\ SkipWS(s, 2) <= Len(s) /\ s[SkipWS(s, 2)] \in {"}", "]"}
       THEN RemoveTrailingCommas(SubSeq(s, SkipWS(s, 2), Len(s)))
       ELSE <<Head(s)>> \o RemoveTrailingCommas(Tail(s))

\* re.search(r'(\{.*"test_cases".*\})', s, re.DOTALL): from the first "{"
\* to the last "}", the key between them
GreedyTestCasesObject(s) ==
  LET i == FindFrom(s, "{", 1)
      a == IF i = 0 THEN 0 ELSE FindSeqFrom(s, <<Q, "test_cases", Q>>, i + 1)
      ends == IF a = 0 THEN {} ELSE {j \in (a + 3)..Len(s) : s[j] = "}"}
  IN IF ends = {} THEN s
     ELSE SubSeq(s, i, CHOOSE j \in ends : \A m \in ends : m <= j)

CleanJsonString(json_str) ==
  GreedyTestCasesObject(RemoveTrailingCommas(Strip(RemoveFences(json_str))))

\* the test cases one regex match contributes (lines 551-566)
CasesOfMatch(json_match) ==
  With(JsonLoads(CleanJsonString(json_match)), LAMBDA parsed :
    IF parsed.ok /\ IsObj(parsed.val) /\ HasKey(parsed.val.v, <<"test_cases">>)
       /\ IsArr(DictGet(parsed.val.v, <<"test_cases">>, JNull))
    THEN DictGet(parsed.val.v, <<"test_cases">>, JNull).v
    ELSE <<>>)

RECURSIVE CasesOfMatches(_)
CasesOfMatches(ms) ==
  IF ms = <<>> THEN <<>> ELSE CasesOfMatch(Head(ms)) \o CasesOfMatches(Tail(ms))

\* str.lower().replace('-', '_') of a requirement id
IdSymLower(sym) ==
  CASE sym = "REQ-" -> "req_"
    [] sym = "R-1" -> "r_1"
    [] sym = "-" -> "_"
    [] OTHER -> sym

LowerUnderscore(id) == [i \in 1..Len(id) |-> IdSymLower(id[i])]

ContainsAny(s, syms) == \E i \in 1..Len(s) : s[i] \in syms

\* endpoint and method read off the title and description (lines 991-1009)
EndpointAndMethod(req) ==
  IF ContainsAny(req.title, {"kwCreate", "create"}) \/ Contains(req.description, "post")
  THEN [endpoint |-> <<"/items">>, method |-> <<"POST">>]
  ELSE IF ContainsAny(req.title, {"kwDelete", "delete"})
  THEN [endpoint |-> <<"/items/", "{item_id}">>, method |-> <<"DELETE">>]
  ELSE IF ContainsAny(req.title, {"kwUpdate", "update", "put"})
  THEN [endpoint |-> <<"/items/", "{item_id}">>, method |-> <<"PUT">>]
  ELSE IF ContainsAny(req.title, {"kwRead", "kwFetch", "get"})
          /\ ContainsAny(req.description, {"kwProject", "items"})
  THEN [endpoint |-> <<"/items">>, method |-> <<"GET">>]
  ELSE [endpoint |-> <<"/">>, method |-> <<"GET">>]

Member(key, val) == <<key, val>>

\* one dict built by _generate_testcases_from_requirement
SynthCase(req, kind, status, itemId, body, validation) ==
  LET em == EndpointAndMethod(req)
      writes == em.method \in {<<"POST">>, <<"PUT">>}
      byId == Contains(em.endpoint, "{item_id}")
  IN JObj(<<
       Member(<<"name">>, JStr(<<"test_">> \o LowerUnderscore(req.id) \o <<"_", kind>>)),
       Member(<<"description">>, JStr(<<kind, ":", WS>> \o req.title)),
       Member(<<"type">>, JStr(<<kind>>)),
       Member(<<"endpoint">>, JStr(em.endpoint)),
       Member(<<"method">>, JStr(em.method)),
       Member(<<"headers">>, JObj(IF writes
              THEN <<Member(<<"Content-Type">>, JStr(<<"application/json">>))>> ELSE <<>>)),
       Member(<<"params">>, JObj(IF byId
              THEN <<Member(<<"item_id">>, JStr(itemId))>> ELSE <<>>)),
       Member(<<"body">>, IF writes THEN body ELSE JNull),
       Member(<<"expected_status">>, JNum(status)),
       Member(<<"expected_response">>, JObj(<<>>)),
       Member(<<"validations">>, JArr(<<JStr(validation)>>)) >>)

\* _generate_testcases_from_requirement: one case per keyword found in the
\* description, none without a keyword
GenerateTestcasesFromRequirement(req) ==
  LET em == EndpointAndMethod(req)
      byId == Contains(em.endpoint, "{item_id}")
      okStatus == IF em.method = <<"POST">> THEN <<"2", "0", "1">>
                  ELSE IF em.method = <<"DELETE">> THEN <<"2", "0", "4">>
                  ELSE <<"2", "0", "0">>
      badStatus == IF byId THEN <<"4", "0", "4">> ELSE <<"4", "2", "2">>
  IN (IF ContainsAny(req.description, {"kwPositive", "kwValidData"})
      THEN <<SynthCase(req, "positive", okStatus, <<"1">>,
                       JObj(<<Member(<<"name">>, JStr(<<"item">>)),
                              Member(<<"description">>, JStr(<<"text">>))>>),
                       <<"response.status_code", WS, "==", WS>> \o okStatus)>>
      ELSE <<>>)
     \o (IF ContainsAny(req.description, {"kwNegative", "kwInvalidData"})
         THEN <<SynthCase(req, "negative", badStatus, <<"9", "9", "9", "9", "9">>,
                          JObj(<<Member(<<"invalid">>, JStr(<<"data">>))>>),
                          <<"response.status_code", WS, ">=", WS, "4", "0", "0">>)>>
         ELSE <<>>)
     \o (IF ContainsAny(req.description, {"kwBoundary", "kwBoundaryCond"})
         THEN <<SynthCase(req, "boundary", <<"4", "2", "2">>, <<>>, JObj(<<>>),
                          <<"response.status_code", WS, "in", WS, "[", "4", "0", "0", ",", WS,
                            "4", "2", "2", "]">>)>>
         ELSE <<>>)

\* the keys _validate_ai_testcases writes
CaseKeys ==
  {"name", "description", "type", "endpoint", "method", "headers", "params",
   "body", "expected_status", "expected_response", "validations"}

\* str.startswith("test_"): the first symbol is, or begins with, test_
StartsWithTest(name) ==
  name # <<>> /\ name[1] \in {"test_", "test_a", "test_b", "test_unknown"}

\* one dict of _validate_ai_testcases, n cases validated already; tc.get
\* raises on anything that is no dict, name.startswith on anything but a str
CaseValidates(tc, n) ==
  IsObj(tc) /\ IsStr(DictGet(tc.v, <<"name">>, JStr(<<"test_case_", DigitSym((n + 1) % 10)>>)))

ValidatedCase(tc, n) ==
  LET name == DictGet(tc.v, <<"name">>, JStr(<<"test_case_", DigitSym((n + 1) % 10)>>)).v IN
  [name        |-> JStr(IF StartsWithTest(name) THEN name ELSE <<"test_">> \o name),
   description |-> DictGet(tc.v, <<"description">>, JStr(<<"AI generated test case">>)),
   type        |-> DictGet(tc.v, <<"type">>, JStr(<<"positive">>)),
   endpoint    |-> DictGet(tc.v, <<"endpoint">>, JStr(<<"/">>)),
   method      |-> DictGet(tc.v, <<"method">>, JStr(<<"GET">>)),
   headers     |-> DictGet(tc.v, <<"headers">>, JObj(<<>>)),
   params      |-> DictGet(tc.v, <<"params">>, JObj(<<>>)),
   body        |-> DictGet(tc.v, <<"body">>, JNull),
   expected_status   |-> DictGet(tc.v, <<"expected_status">>, JNum(<<"2", "0", "0">>)),
   expected_response |-> DictGet(tc.v, <<"expected_response">>, JObj(<<>>)),
   validations |-> DictGet(tc.v, <<"validations">>, JArr(<<>>))]

\* _validate_ai_testcases: every case rewritten with the eleven keys
RECURSIVE ValidateAiTestcases(_, _)
ValidateAiTestcases(cases, acc) ==
  IF cases = <<>> THEN [raised |-> FALSE, cases |-> acc]
  ELSE IF ~CaseValidates(Head(cases), Len(acc)) THEN [raised |-> TRUE, cases |-> <<>>]
  ELSE ValidateAiTestcases(Tail(cases), Append(acc, ValidatedCase(Head(cases), Len(acc))))

\* the loop of _convert_requirements_to_testcases (lines 525-574): cases is
\* test_cases so far, origin says for each where it came from: a JSON block
\* of the model's answer ("ai") or _generate_testcases_from_requirement
\* ("synthesized")
RECURSIVE CollectCases(_, _, _)
CollectCases(requirements, cases, origin) ==
  IF requirements = <<>> THEN [cases |-> cases, origin |-> origin]
  ELSE With(CasesOfMatches(FindTestCasesSpans(RequirementContent(Head(requirements)), 1)),
            LAMBDA found :
       With(IF cases \o found = <<>>
            THEN GenerateTestcasesFromRequirement(Head(requirements)) ELSE <<>>,
            LAMBDA synth :
         CollectCases(Tail(requirements), cases \o found \o synth,
                      origin \o [i \in 1..Len(found) |-> "ai"]
                             \o [i \in 1..Len(synth) |-> "synthesized"])))

\* _convert_requirements_to_testcases without the "if not test_cases: raise"
\* of lines 577-581
ConvertRequirementsToTestcasesKeepsEmpty(requirements) ==
  With(CollectCases(requirements, <<>>, <<>>), LAMBDA got :
  With(ValidateAiTestcases(got.cases, <<>>), LAMBDA val :
    IF val.raised
    THEN [raised |-> TRUE, test_cases |-> <<>>, origin |-> <<>>]
    ELSE [raised |-> FALSE, test_cases |-> val.cases, origin |-> got.origin]))

\* _convert_requirements_to_testcases: raised when no case was found or a
\* case does not validate
ConvertRequirementsToTestcases(requirements) ==
  With(CollectCases(requirements, <<>>, <<>>), LAMBDA got :
  With(ValidateAiTestcases(got.cases, <<>>), LAMBDA val :
    IF got.cases = <<>> \/ val.raised
    THEN [raised |-> TRUE, test_cases |-> <<>>, origin |-> <<>>]
    ELSE [raised |-> FALSE, test_cases |-> val.cases, origin |-> got.origin]))

MinCodeLen == 100

\* 'pytest' in text, 'def test_' in text: substring tests, so a symbol that
\* spells a longer text with the literal in it counts
HasPytest(text) == ContainsAny(text, {"pytest", "import pytest"})
HasDefTest(text) == Contains(text, "def test_")

\* re.findall(r'```python\s*(.*?)\s*```', content, re.DOTALL)
RECURSIVE PythonBlocks(_, _)
PythonBlocks(s, from) ==
  LET i == FindSeqFrom(s, <<Fence, PythonTag>>, from)
      j == IF i = 0 THEN 0 ELSE FindFrom(s, Fence, i + 2)
  IN IF j = 0 THEN <<>>
     ELSE <<Strip(SubSeq(s, i + 2, j - 1))>> \o PythonBlocks(s, j + 1)

\* re.findall(r'```\s*(.*?)\s*```', content, re.DOTALL)
RECURSIVE AnyBlocks(_, _)
AnyBlocks(s, from) ==
  LET i == FindFrom(s, Fence, from)
      j == IF i = 0 THEN 0 ELSE FindFrom(s, Fence, i + 1)
  IN IF j = 0 THEN <<>>
     ELSE <<Strip(SubSeq(s, i + 1, j - 1))>> \o AnyBlocks(s, j + 1)

\* the code one requirement's description yields (lines 761-780), <<>> if none
CodeOfContent(content) ==
  With(PythonBlocks(content, 1), LAMBDA py :
  With(IF py # <<>> THEN py ELSE AnyBlocks(content, 1), LAMBDA blocks :
  With({i \in 1..Len(blocks) : HasPytest(blocks[i]) /\ HasDefTest(blocks[i])}, LAMBDA good :
    IF good # {} THEN Strip(blocks[CHOOSE i \in good : \A j \in good : i <= j])
    ELSE IF Contains(content, "import pytest") /\ HasDefTest(content)
    THEN Strip(Drop(content, FindFrom(content, "import pytest", 1) - 1))
    ELSE <<>>)))

\* _generate_pytest_from_requirements: the fixed header and one test
\* function per requirement
GeneratePytestFromRequirements(requirements) ==
  <<"skeletonHeader">> \o [i \in 1..Len(requirements) |-> "skeletonTest"]

\* _convert_requirements_to_code: the first requirement whose description
\* holds code decides; without one the code is written from the
\* requirements themselves, so line 799 is never reached for Requirement
\* objects
RECURSIVE FirstCode(_)
FirstCode(requirements) ==
  IF requirements = <<>> THEN <<>>
  ELSE With(CodeOfContent(Head(requirements).description), LAMBDA code :
         IF code # <<>> THEN code ELSE FirstCode(Tail(requirements)))

ConvertRequirementsToCode(requirements) ==
  With(FirstCode(requirements), LAMBDA code :
    IF code # <<>> THEN [test_code |-> code, origin |-> "ai"]
    ELSE [test_code |-> GeneratePytestFromRequirements(requirements),
          origin |-> "synthesized"])

\* the check of _generate_test_code (lines 345-350)
CodeRefused(test_code) == test_code = <<>> \/ StrLen(Strip(test_code)) < MinCodeLen

(* ---------------------------------------------------------------------- *)
(* _build_test_suite and TestCase / TestSuite (models/test_case.py)       *)
(* ---------------------------------------------------------------------- *)

\* test_type_map.get(tc_dict.get("type", "positive"), TestType.POSITIVE):
\* a list or dict cannot be looked up and raises
TypeLookupRaises(tc) == IsArr(tc.type) \/ IsObj(tc.type)

TestTypeOf(tc) ==
  IF JEq(tc.type, JStr(<<"negative">>)) THEN "negative"
  ELSE IF JEq(tc.type, JStr(<<"boundary">>)) THEN "boundary"
  ELSE "positive"

IsIntLike(x) ==
  \/ IsNum(x)
  \/ IsStr(x) /\ x.v # <<>> /\ \A i \in 1..Len(x.v) : x.v[i] \in Digits

\* the field types TestCase declares
TestCaseAccepts(tc) ==
  /\ IsStr(tc.name) /\ IsStr(tc.description)
  /\ IsStr(tc.endpoint) /\ IsStr(tc.method)
  /\ IsObj(tc.headers) /\ \A i \in 1..Len(tc.headers.v) : IsStr(tc.headers.v[i][2])
  /\ IsObj(tc.params)
  /\ (IsNull(tc.body) \/ IsObj(tc.body))
  /\ IsIntLike(tc.expected_status)
  /\ IsArr(tc.validations) /\ \A i \in 1..Len(tc.validations.v) : IsStr(tc.validations.v[i])

CountType(test_cases, kind) ==
  Cardinality({i \in 1..Len(test_cases) : JEq(test_cases[i].type, JStr(<<kind>>))})

\* _build_test_suite: the TestCase objects, and the counters counted on the
\* dicts
BuildTestSuite(test_cases) ==
  IF \E i \in 1..Len(test_cases) :
        TypeLookupRaises(test_cases[i]) \/ ~TestCaseAccepts(test_cases[i])
  THEN [raised |-> TRUE, test_cases |-> <<>>, total_tests |-> 0,
        positive_tests |-> 0, negative_tests |-> 0, boundary_tests |-> 0]
  ELSE [raised |-> FALSE,
        test_cases |-> [i \in 1..Len(test_cases) |->
                          [name |-> test_cases[i].name.v, test_type |-> TestTypeOf(test_cases[i])]],
        total_tests |-> Len(test_cases),
        positive_tests |-> CountType(test_cases, "positive"),
        negative_tests |-> CountType(test_cases, "negative"),
        boundary_tests |-> CountType(test_cases, "boundary")]

(* ---------------------------------------------------------------------- *)
(* DocumentFormatDetector (utils/format_detector.py)                      *)
(* ---------------------------------------------------------------------- *)

\* A file name is <<stem, suffix>>.  Path(filename).suffix.lower()
SuffixLower(filename) ==
  CASE filename[2] = ".JSON" -> ".json"
    [] filename[2] = ".MD" -> ".md"
    [] OTHER -> filename[2]

\* the symbols in which re.findall finds one match of api_markdown_patterns
api_markdown_patterns == {"## GET /", "### Request", "### Response", "Status Code: 200"}

\* the symbols in which re.findall finds one match of prompt_markdown_patterns
prompt_markdown_patterns == {"## Prompt", "Role: system", "Input:"}

\* _calculate_pattern_score: score += len(matches), pattern by pattern
RECURSIVE SumSeq(_)
SumSeq(ns) == IF ns = <<>> THEN 0 ELSE Head(ns) + SumSeq(Tail(ns))

CalculatePatternScore(content, patterns) ==
  SumSeq([i \in 1..Len(content) |-> IF content[i] \in patterns THEN 1 ELSE 0])

\* the lower-case words the detectors look for that one symbol's text holds
WordsIn(sym) ==
  CASE sym = "## GET /" -> {"get /"}
    [] sym = "### Request" -> {"request"}
    [] sym = "### Response" -> {"response"}
    [] sym = "Status Code: 200" -> {"status code"}
    [] sym = "## Prompt" -> {"prompt"}
    [] sym = "requirement" -> {"requirement"}
    [] sym = "requirements" -> {"requirement", "requirements"}
    [] sym = "feature" -> {"feature"}
    [] sym = "openapi" -> {"openapi", "api"}
    [] sym = "swagger" -> {"swagger"}
    [] sym = "paths" -> {"paths"}
    [] sym = "components" -> {"components"}
    [] sym = "prompts" -> {"prompts", "prompt"}
    [] sym = "scenarios" -> {"scenarios"}
    [] sym = "test_cases" -> {"test_cases"}
    [] OTHER -> {}

\* word in content.lower()
HasWord(content, word) == \E i \in 1..Len(content) : word \in WordsIn(content[i])

CountWords(content, words) == Cardinality({w \in words : HasWord(content, w)})

\* _detect_markdown_format
DetectMarkdownFormat(content) ==
  With(CalculatePatternScore(content, api_markdown_patterns), LAMBDA api_score :
  With(CalculatePatternScore(content, prompt_markdown_patterns), LAMBDA prompt_score :
    IF api_score > prompt_score /\ api_score > 0 THEN "api_markdown"
    ELSE IF prompt_score > 0 THEN "prompt"
    ELSE "markdown"))

\* _is_openapi_format, data being the members of the parsed dict
IsOpenapiFormat(data) ==
  \/ HasKey(data, <<"openapi">>)
  \/ /\ HasKey(data, <<"swagger">>)
     /\ IsStr(DictGet(data, <<"swagger">>, JStr(<<>>)))
     /\ StartsWith(DictGet(data, <<"swagger">>, JStr(<<>>)).v, <<"2.">>)
  \/ HasKey(data, <<"info">>) /\ HasKey(data, <<"paths">>)
  \/ Cardinality({k \in {"openapi", "swagger", "paths", "components", "info", "servers"} :
                    HasKey(data, <<k>>)}) >= 3

\* _is_prompt_format: the keywords are looked for in str(data)
IsPromptFormat(data) ==
  \/ \E k \in {"prompts", "prompt_templates", "test_cases"} : HasKey(data, <<k>>)
  \/ CountWords(JsonDumps(JObj(data)),
                {"prompts", "prompt_template", "test_cases", "scenarios", "evaluation"}) >= 2

\* _detect_structured_format for a .json file (YAML files are not among the
\* inputs): a text json.loads refuses, or one that is no dict, is TXT
DetectStructuredFormat(content, extension) ==
  With(JsonLoads(content), LAMBDA r :
    IF ~r.ok \/ ~IsObj(r.val) THEN "txt"
    ELSE IF IsOpenapiFormat(r.val.v) THEN "openapi"
    ELSE IF IsPromptFormat(r.val.v) THEN "prompt"
    ELSE "openapi")

\* _get_default_type_by_extension
GetDefaultTypeByExtension(extension) ==
  CASE extension \in {".md", ".markdown"} -> "markdown"
    [] extension = ".pdf" -> "pdf"
    [] extension \in {".doc", ".docx"} -> "word"
    [] OTHER -> "txt"

\* detect_format
DetectFormat(content, filename) ==
  With(SuffixLower(filename), LAMBDA extension :
    IF extension \in {".json", ".yaml", ".yml"} THEN DetectStructuredFormat(content, extension)
    ELSE IF extension \in {".md", ".markdown"} THEN DetectMarkdownFormat(content)
    ELSE GetDefaultTypeByExtension(extension))

(* ---------------------------------------------------------------------- *)
(* SmartDocumentDetector (utils/smart_detector.py)                        *)
(* A confidence is a number of ten-thousandths.                           *)
(* ---------------------------------------------------------------------- *)

HIGH_CONFIDENCE == 8000
MEDIUM_CONFIDENCE == 5000

\* a + b on floats: 0.7 + 0.1 is 0.7999999999999999 and 0.7 + 0.2 is
\* 0.8999999999999999, one below the decimal sum here
FloatSum(a, b) ==
  IF a = 7000 /\ b \in {1000, 2000} THEN a + b - 1 ELSE a + b

Min(a, b) == IF a <= b THEN a ELSE b

\* a confidence that counts the extension only, from zero
CalculateRuleConfidenceFromZero(content, filename, doc_type) ==
  IF filename[2] = ".json" /\ doc_type = "openapi" THEN 3000
  ELSE IF filename[2] = ".md" /\ doc_type \in {"markdown", "api_markdown"} THEN 2000
  ELSE 0

\* _calculate_rule_confidence
CalculateRuleConfidence(content, filename, doc_type) ==
  With(IF filename[2] = ".json" /\ doc_type = "openapi" THEN 5000 + 3000
       ELSE IF filename[2] = ".md" /\ doc_type \in {"markdown", "api_markdown"} THEN 5000 + 2000
       ELSE 5000, LAMBDA confidence :
    Min(10000,
        CASE doc_type = "openapi" ->
               FloatSum(confidence,
                        Min(1000 * CountWords(content, {"openapi", "swagger", "paths", "components"}),
                            3000))
          [] doc_type = "api_markdown" ->
               FloatSum(confidence,
                        Min(500 * CountWords(content, {"get /", "post /", "request", "response",
                                                       "status code"}),
                            2000))
          [] doc_type = "markdown" ->
               FloatSum(confidence,
                        Min(500 * CountWords(content, {"kwNeed", "kwFunction", "kwUserStory",
                                                       "requirement", "feature"}),
                            2000))
          [] OTHER -> confidence))

\* _rule_detection
RuleDetection(content, filename) ==
  With(DetectFormat(content, filename), LAMBDA doc_type :
    [document_type |-> doc_type,
     confidence |-> CalculateRuleConfidence(content, filename, doc_type),
     method |-> "rule"])

\* SmartDocumentDetector._parse_ai_response
DetectorParseAiResponse(response) ==
  IF HasWord(response, "api") THEN "api_markdown"
  ELSE IF HasWord(response, "prompt") THEN "prompt"
  ELSE "markdown"

\* _ai_detection: the answer is the fixed text "requirements"; when building
\* the extractor raises, the except branch answers
AiDetection(extractor_built) ==
  IF extractor_built
  THEN [document_type |-> DetectorParseAiResponse(<<"requirements">>), confidence |-> 8500,
        method |-> "ai"]
  ELSE [document_type |-> "markdown", confidence |-> 3000, method |-> "ai_failed"]

\* a combination that never discounts nor rewards
CombineResultsAsTheyAre(rule_result, ai_result) ==
  IF rule_result.document_type = ai_result.document_type
  THEN [rule_result EXCEPT !.method = "hybrid_consistent"]
  ELSE IF ai_result.confidence > rule_result.confidence
  THEN [ai_result EXCEPT !.method = "hybrid_ai_preferred"]
  ELSE [rule_result EXCEPT !.method = "hybrid_rule_preferred"]

\* _combine_results
CombineResults(rule_result, ai_result) ==
  IF rule_result.document_type = ai_result.document_type
  THEN [document_type |-> rule_result.document_type,
        confidence |-> Min((rule_result.confidence + ai_result.confidence) \div 2 + 2000, 10000),
        method |-> "hybrid_consistent"]
  ELSE IF ai_result.confidence > rule_result.confidence
  THEN [document_type |-> ai_result.document_type,
        confidence |-> (ai_result.confidence * 9) \div 10,
        method |-> "hybrid_ai_preferred"]
  ELSE [document_type |-> rule_result.document_type,
        confidence |-> (rule_result.confidence * 9) \div 10,
        method |-> "hybrid_rule_preferred"]

\* _create_uncertain_result
CreateUncertainResult(rule_result, ai_result) ==
  [document_type |-> rule_result.document_type, confidence |-> 4000, method |-> "uncertain"]

\* the AI detection of a call that did not run it
NotAsked == [document_type |-> "none", confidence |-> 0, method |-> "none"]

\* a detector that asks the AI and combines whatever the rules found
DetectionAlwaysAsks(content, filename, extractor_built) ==
  With(RuleDetection(content, filename), LAMBDA rule_result :
    [result |-> CombineResults(rule_result, AiDetection(extractor_built)),
     rule |-> rule_result, ai |-> AiDetection(extractor_built)])

\* detect_document_type, lines 77-93: what a call that missed the cache
\* computes, with the results of the detections it ran
Detection(content, filename, extractor_built) ==
  With(RuleDetection(content, filename), LAMBDA rule_result :
    IF rule_result.confidence >= HIGH_CONFIDENCE
    THEN [result |-> rule_result, rule |-> rule_result, ai |-> NotAsked]
    ELSE With(AiDetection(extractor_built), LAMBDA ai_result :
      [result |-> IF rule_result.confidence >= MEDIUM_CONFIDENCE
                  THEN CombineResults(rule_result, ai_result)
                  ELSE IF ai_result.confidence > rule_result.confidence
                  THEN ai_result
                  ELSE CreateUncertainResult(rule_result, ai_result),
       rule |-> rule_result, ai |-> ai_result]))

\* the result of detect_document_type on a miss
Classify(content, filename, extractor_built) ==
  Detection(content, filename, extractor_built).result

\* _get_content_hash: a function of the content alone.  The 16 hex digits
\* of the MD5 are taken to tell the few contents of a run apart
GetContentHash(content) == <<"md5", content>>

\* self.cache[content_hash] = result
CachePutDropped(c, key, value) == c

CachePut(c, key, value) ==
  [k \in DOMAIN c \cup {key} |-> IF k = key THEN value ELSE c[k]]

(* ---------------------------------------------------------------------- *)
(* DocumentParsingService (requirements_parser/service.py) and the batch, *)
(* accuracy and quality methods of LangChainExtractor                     *)
(* ---------------------------------------------------------------------- *)

\* the attributes DocumentParsingService.__init__ sets on self
ServiceAttributes == {"ai_provider", "format_detector", "parsers", "requirements_extractor"}

\* the Requirement both fallbacks and the user-story loop build
BuiltRequirement(id, title, description, type) ==
  [id |-> id, title |-> title, description |-> description, type |-> type,
   priority |-> <<"medium">>, acceptance_criteria |-> <<>>]

\* _extract_simple_requirements, first loop: section i-1 of enumerate
RECURSIVE SimpleFromSections(_, _)
SimpleFromSections(sections, i) ==
  IF i > Len(sections) THEN <<>>
  ELSE (IF \E w \in {"kwNeed", "kwFunction", "requirement", "feature"} :
             HasWord(sections[i].title, w)
        THEN <<BuiltRequirement(SequentialId(i), sections[i].title,
                                <<"kwFromSection">> \o sections[i].title, <<"functional">>)>>
        ELSE <<>>)
       \o SimpleFromSections(sections, i + 1)

\* _extract_simple_requirements
ExtractSimpleRequirements(document) ==
  With(SimpleFromSections(document.sections, 1), LAMBDA requirements :
    IF requirements = <<>>
    THEN <<BuiltRequirement(SequentialId(1), <<"kwDocumentRequirement">>,
                            <<"kwFromDocument">> \o document.title, <<"functional">>)>>
    ELSE requirements)

\* the user-story loop of _extract_requirements_from_document: a story with
\* a blank text is refused by Requirement and the loop raises
RECURSIVE AppendUserStories(_, _)
AppendUserStories(requirements, stories) ==
  IF stories = <<>> THEN [raised |-> FALSE, reqs |-> requirements]
  ELSE IF Strip(Head(stories)) = <<>> THEN [raised |-> TRUE, reqs |-> <<>>]
  ELSE AppendUserStories(
         Append(requirements,
                BuiltRequirement(<<"US-">> \o Tail(SequentialId(Len(requirements) + 1)),
                                 <<"kwUserStory">>, Strip(Head(stories)), <<"user_story">>)),
         Tail(stories))

\* _extract_requirements_from_document: self.extractor is read first, and
\* any exception of the try block is answered with the simple requirements
ExtractRequirementsFromDocument(document, attributes) ==
  IF "extractor" \notin attributes
  THEN [requirements |-> ExtractSimpleRequirements(document), caught |-> "AttributeError"]
  ELSE With(ExtractAsync(document.reply), LAMBDA e :
       With(IF e.raised THEN [raised |-> TRUE, reqs |-> <<>>]
            ELSE AppendUserStories(e.reqs, document.user_stories), LAMBDA r :
         IF r.raised
         THEN [requirements |-> ExtractSimpleRequirements(document), caught |-> "Exception"]
         ELSE [requirements |-> r.reqs, caught |-> "none"]))

\* extract_batch: the documents are awaited one after the other; results is
\* the dict from title to list, stdout the titles reported as failed
RECURSIVE ExtractBatchAborting(_, _, _)
ExtractBatchAborting(documents, results, stdout) ==
  IF documents = <<>> THEN [results |-> results, stdout |-> stdout]
  ELSE With(ExtractAsync(Head(documents).reply), LAMBDA e :
         IF e.raised THEN [results |-> results, stdout |-> Append(stdout, Head(documents).title)]
         ELSE ExtractBatchAborting(Tail(documents),
                                   CachePut(results, Head(documents).title, e.reqs), stdout))

RECURSIVE ExtractBatch(_, _, _)
ExtractBatch(documents, results, stdout) ==
  IF documents = <<>> THEN [results |-> results, stdout |-> stdout]
  ELSE With(ExtractAsync(Head(documents).reply), LAMBDA e :
         ExtractBatch(Tail(documents),
                      CachePut(results, Head(documents).title, IF e.raised THEN <<>> ELSE e.reqs),
                      IF e.raised THEN Append(stdout, Head(documents).title) ELSE stdout))

\* fractions <<numerator, denominator>>, for the quotient of two counts
FracLeq(a, b) == a[1] * b[2] <= b[1] * a[2]
FracMin(a, b) == IF FracLeq(a, b) THEN a ELSE b

NoCount == [given |-> FALSE, n |-> 0]
Count(n) == [given |-> TRUE, n |-> n]

\* the accuracy of extract_with_accuracy, lines 377-381
AccuracyUncapped(extracted_count, expected_count) ==
  IF ~expected_count.given THEN <<1, 1>>
  ELSE IF expected_count.n > 0
  THEN <<extracted_count, expected_count.n>>
  ELSE <<0, 1>>

Accuracy(extracted_count, expected_count) ==
  IF ~expected_count.given THEN <<1, 1>>
  ELSE IF expected_count.n > 0
  THEN FracMin(<<extracted_count, expected_count.n>>, <<1, 1>>)
  ELSE <<0, 1>>

\* extract_with_accuracy: an exception of extract_async is not caught
ExtractWithAccuracy(document, expected_count) ==
  With(ExtractAsync(document.reply), LAMBDA e :
    IF e.raised
    THEN [raised |-> TRUE, requirements |-> <<>>, accuracy |-> <<0, 1>>, extracted_count |-> 0,
          expected_count |-> expected_count]
    ELSE [raised |-> FALSE, requirements |-> e.reqs,
          accuracy |-> Accuracy(Len(e.reqs), expected_count),
          extracted_count |-> Len(e.reqs), expected_count |-> expected_count])

\* the deductions of validate_extraction_quality for one requirement, in
\* hundredths
Deductions(req) ==
  (IF Strip(req.title) = <<>> THEN 10 ELSE 0)
  + (IF Strip(req.description) = <<>> THEN 10 ELSE 0)
  + (IF req.acceptance_criteria = <<>> THEN 5 ELSE 0)

Max(a, b) == IF a >= b THEN a ELSE b

\* validate_extraction_quality: quality_score in hundredths, and the number
\* of issues
ValidateExtractionQualityNoFloor(requirements) ==
  IF requirements = <<>> THEN [quality_score |-> 0, issues |-> 1]
  ELSE [quality_score |->
          100 - SumSeq([i \in 1..Len(requirements) |-> Deductions(requirements[i])]),
        issues |-> SumSeq([i \in 1..Len(requirements) |->
                             Deductions(requirements[i]) \div 10
                             + (Deductions(requirements[i]) % 10) \div 5])]

ValidateExtractionQuality(requirements) ==
  IF requirements = <<>> THEN [quality_score |-> 0, issues |-> 1]
  ELSE [quality_score |->
          Max(0, 100 - SumSeq([i \in 1..Len(requirements) |-> Deductions(requirements[i])])),
        issues |-> SumSeq([i \in 1..Len(requirements) |->
                             Deductions(requirements[i]) \div 10
                             + (Deductions(requirements[i]) % 10) \div 5])]

(* ---------------------------------------------------------------------- *)
(* Document (models/document.py) and the parsers that build one           *)
(* ---------------------------------------------------------------------- *)

NL == "\n"

\* not v.strip(): nothing but white space, the empty str included
IsBlank(v) == \A i \in 1..Len(v) : v[i] \in {WS, NL}

\* str.strip() of a text that may hold line breaks
StripText(v) ==
  IF IsBlank(v) THEN <<>>
  ELSE SubSeq(v, CHOOSE i \in 1..Len(v) : ~IsBlank(<<v[i]>>) /\ IsBlank(SubSeq(v, 1, i - 1)),
                 CHOOSE i \in 1..Len(v) : ~IsBlank(<<v[i]>>) /\ IsBlank(SubSeq(v, i + 1, Len(v))))

\* str.split('\n')
RECURSIVE SplitLines(_)
SplitLines(v) ==
  IF ~Contains(v, NL) THEN <<v>>
  ELSE <<SubSeq(v, 1, FindFrom(v, NL, 1) - 1)>> \o SplitLines(Drop(v, FindFrom(v, NL, 1)))

\* '\n'.join(lines)
RECURSIVE JoinLines(_)
JoinLines(lines) ==
  IF lines = <<>> THEN <<>>
  ELSE IF Len(lines) = 1 THEN Head(lines)
  ELSE Head(lines) \o <<NL>> \o JoinLines(Tail(lines))

\* a ValueError: pydantic's ValidationError is one, the parsers raise others
Refused == [ok |-> FALSE, error |-> "ValueError"]

\* a Document built without min_length and without the two validators
DocumentUnvalidated(title, content, document_type) ==
  [ok |-> TRUE, title |-> title, content |-> content, document_type |-> document_type]

\* Document(title=..., content=..., document_type=...): min_length=1 and
\* validate_title refuse a blank title, validate_content a blank content;
\* the title is kept stripped, the content as given
Document(title, content, document_type) ==
  IF IsBlank(title) \/ IsBlank(content) THEN Refused
  ELSE [ok |-> TRUE, title |-> StripText(title), content |-> content,
        document_type |-> document_type]

\* OpenAPIParser.http_methods
http_methods ==
  [get |-> "GET", post |-> "POST", put |-> "PUT", delete |-> "DELETE", patch |-> "PATCH",
   head |-> "HEAD", options |-> "OPTIONS"]

\* method.lower() of a path-item key
KeyLower(method) ==
  IF Len(method) = 1 /\ \E m \in DOMAIN http_methods : http_methods[m] = method[1]
  THEN <<CHOOSE m \in DOMAIN http_methods : http_methods[m] = method[1]>>
  ELSE method

IsHttpMethod(method) == Len(method) = 1 /\ method[1] \in DOMAIN http_methods

\* _parse_parameters: the names of the APIParameter objects built, or the
\* exception of a parameter whose name validate_name refuses
RECURSIVE ParseParameters(_, _)
ParseParameters(parameters_data, acc) ==
  IF parameters_data = <<>> THEN [ok |-> TRUE, names |-> acc]
  ELSE IF ~IsObj(Head(parameters_data)) THEN ParseParameters(Tail(parameters_data), acc)
  ELSE IF ~ValidText(DictGet(Head(parameters_data).v, <<"name">>, JStr(<<>>))) THEN Refused
  ELSE ParseParameters(Tail(parameters_data),
         Append(acc, Strip(DictGet(Head(parameters_data).v, <<"name">>, JStr(<<>>)).v)))

\* _parse_responses: the status codes that carry a dict
ParseResponses(responses_data) ==
  SelectSeq([i \in 1..Len(responses_data) |->
               IF IsObj(responses_data[i][2]) THEN responses_data[i][1] ELSE <<>>],
            LAMBDA code : code # <<>>)

\* APIEndpoint.validate_path: a blank path is refused, a path without its
\* leading slash gets one
ValidatePath(v) == IF StartsWith(v, <<"/">>) THEN v ELSE <<"/">> \o v

\* _parse_operation of an operation without a requestBody: parameters,
\* responses, then APIEndpoint(...), whose validators refuse a blank path
\* and a blank summary; the summary of an operation that has none is ''
ParseOperation(path, method, operation) ==
  With(DictGet(operation, <<"parameters">>, JArr(<<>>)), LAMBDA parameters_data :
  With(DictGet(operation, <<"responses">>, JObj(<<>>)), LAMBDA responses_data :
  With(DictGet(operation, <<"summary">>, JStr(<<>>)), LAMBDA summary :
    IF ~Iterable(parameters_data) \/ ~IsObj(responses_data) THEN Refused
    ELSE IF ~ParseParameters(IterItems(parameters_data), <<>>).ok THEN Refused
    ELSE IF IsBlank(path) \/ ~ValidText(summary) THEN Refused
    ELSE [ok |-> TRUE,
          endpoint |-> [path |-> ValidatePath(path), method |-> http_methods[method[1]],
                        summary |-> Strip(summary.v),
                        parameters |-> ParseParameters(IterItems(parameters_data), <<>>).names,
                        responses |-> ParseResponses(responses_data.v)]])))

\* the inner loop of _parse_paths over the keys of one path item
RECURSIVE ParsePathItem(_, _, _)
ParsePathItem(path, path_item, endpoints) ==
  IF path_item = <<>> THEN [ok |-> TRUE, endpoints |-> endpoints]
  ELSE IF ~IsHttpMethod(KeyLower(Head(path_item)[1])) \/ ~IsObj(Head(path_item)[2])
  THEN ParsePathItem(path, Tail(path_item), endpoints)
  ELSE With(ParseOperation(path, KeyLower(Head(path_item)[1]), Head(path_item)[2].v),
         LAMBDA r :
           IF ~r.ok THEN Refused
           ELSE ParsePathItem(path, Tail(path_item), Append(endpoints, r.endpoint)))

\* _parse_paths: the endpoints in the order of the document, or the
\* exception of the first operation that is refused
RECURSIVE ParsePaths(_, _)
ParsePaths(paths_data, endpoints) ==
  IF paths_data = <<>> THEN [ok |-> TRUE, endpoints |-> endpoints]
  ELSE IF ~IsObj(Head(paths_data)[2]) THEN ParsePaths(Tail(paths_data), endpoints)
  ELSE With(ParsePathItem(Head(paths_data)[1], Head(paths_data)[2].v, endpoints), LAMBDA r :
         IF ~r.ok THEN Refused ELSE ParsePaths(Tail(paths_data), r.endpoints))

\* _parse_info: APIInfo wants a str title and a str version
ParseInfo(info_data) ==
  With(DictGet(info_data, <<"title">>, JStr(<<"Untitled API">>)), LAMBDA title :
    IF ~IsStr(title) \/ ~IsStr(DictGet(info_data, <<"version">>, JStr(<<"1.0.0">>)))
    THEN Refused
    ELSE [ok |-> TRUE, title |-> title.v])

\* _convert_to_api_document for a dict without servers: info, endpoints,
\* source format; APIDocument.validate_endpoints refuses an empty list
ConvertToApiDocument(openapi_data) ==
  With(DictGet(openapi_data, <<"info">>, JObj(<<>>)), LAMBDA info_data :
  With(DictGet(openapi_data, <<"paths">>, JObj(<<>>)), LAMBDA paths_data :
    IF ~IsObj(info_data) \/ ~IsObj(paths_data) THEN Refused
    ELSE With(ParseInfo(info_data.v), LAMBDA info :
         With(ParsePaths(paths_data.v, <<>>), LAMBDA r :
           IF ~info.ok \/ ~r.ok THEN Refused
           ELSE IF r.endpoints = <<>> THEN Refused
           ELSE [ok |-> TRUE, title |-> info.title, endpoints |-> r.endpoints,
                 source_format |->
                   IF HasKey(openapi_data, <<"openapi">>) THEN "openapi"
                   ELSE IF HasKey(openapi_data, <<"swagger">>) THEN "swagger"
                   ELSE "unknown"]))))

\* OpenAPIParser.parse of a text that is JSON or a YAML scalar: every
\* exception leaves as a ValueError; the APIDocument rides on the Document
OpenAPIParse(content) ==
  IF ~StartsWith(StripText(content), <<"{">>) THEN Refused
  ELSE With(JsonLoads(content), LAMBDA loaded :
    IF ~loaded.ok \/ ~IsObj(loaded.val) THEN Refused
    ELSE With(ConvertToApiDocument(loaded.val.v), LAMBDA api_document :
      IF ~api_document.ok THEN Refused
      ELSE With(Document(api_document.title, content, "openapi"), LAMBDA document :
        IF ~document.ok THEN Refused
        ELSE [ok |-> TRUE, title |-> document.title, content |-> document.content,
              document_type |-> document.document_type,
              endpoints |-> api_document.endpoints,
              source_format |-> api_document.source_format])))

\* str.lstrip(mark)
RECURSIVE LStrip(_, _)
LStrip(line, mark) ==
  IF line # <<>> /\ Head(line) = mark THEN LStrip(Tail(line), mark) ELSE line

\* the default title of extract_title (a text in Chinese in the code)
UnnamedDocument == <<"unnamed", WS, "document">>

\* BaseParser.extract_title over the lines that are left: the first line
\* that keeps some text once its leading #, * and - are taken off
RECURSIVE ExtractTitleFromLines(_)
ExtractTitleFromLines(lines) ==
  IF lines = <<>> THEN UnnamedDocument
  ELSE With(Strip(LStrip(LStrip(LStrip(Strip(Head(lines)), "#"), "*"), "-")), LAMBDA title :
         IF title # <<>> THEN title ELSE ExtractTitleFromLines(Tail(lines)))

ExtractTitle(content) == ExtractTitleFromLines(SplitLines(StripText(content)))

\* the loop of _extract_title_from_frontmatter_or_content: the first "# " line
RECURSIVE FirstH1(_)
FirstH1(lines) ==
  IF lines = <<>> THEN <<>>
  ELSE IF StartsWith(Strip(Head(lines)), <<"#", WS>>) THEN Strip(Drop(Strip(Head(lines)), 2))
  ELSE FirstH1(Tail(lines))

\* _extract_title_from_frontmatter_or_content; a front matter without a
\* title is the title <<>>
ExtractTitleFromFrontmatterOrContent(frontmatter_title, content) ==
  IF frontmatter_title # <<>> THEN frontmatter_title
  ELSE IF FirstH1(SplitLines(content)) # <<>> THEN FirstH1(SplitLines(content))
  ELSE ExtractTitle(content)

\* no front matter: frontmatter.loads raised
NoPost == [title |-> <<>>, content |-> <<>>, loaded |-> FALSE]

\* MarkdownParser.parse.  post is what frontmatter.loads makes of a content
\* that starts with '---' (the library is there whenever the parser is).
\* The sections, tables, links and user stories are attached to the
\* Document afterwards and leave its title and content as built
MarkdownParse(content, post) ==
  IF IsBlank(content) THEN Refused
  ELSE IF post.loaded /\ StartsWith(content, <<"-", "-", "-">>)
  THEN Document(ExtractTitleFromFrontmatterOrContent(post.title, post.content), post.content,
                "markdown")
  ELSE Document(ExtractTitleFromFrontmatterOrContent(<<>>, content), content, "markdown")

\* re.match(r'^\d+$', line) and re.match(r'^#+\s', line)
IsPageNumber(line) == line # <<>> /\ \A i \in 1..Len(line) : line[i] \in Digits
IsHeading(line) == LStrip(line, "#") # line /\ StartsWith(LStrip(line, "#"), <<WS>>)

\* _clean_text_content, line by line: page numbers and short lines that are
\* no headings are dropped, empty lines kept
RECURSIVE CleanLines(_)
CleanLines(lines) ==
  IF lines = <<>> THEN <<>>
  ELSE With(Strip(Head(lines)), LAMBDA line :
         IF line = <<>> THEN <<line>> \o CleanLines(Tail(lines))
         ELSE IF IsPageNumber(line) \/ (StrLen(line) < 5 /\ ~IsHeading(line))
         THEN CleanLines(Tail(lines))
         ELSE <<line>> \o CleanLines(Tail(lines)))

CleanTextContent(text) == JoinLines(CleanLines(SplitLines(text)))

\* PDFParser._extract_title_from_content; stem is Path(file_name).stem
RECURSIVE PdfTitleFromLines(_, _)
PdfTitleFromLines(lines, stem) ==
  IF lines = <<>> THEN stem
  ELSE With(Strip(Head(lines)), LAMBDA line :
         IF line = <<>> THEN PdfTitleFromLines(Tail(lines), stem)
         ELSE IF Head(line) = "#" THEN Strip(LStrip(line, "#"))
         ELSE IF StrLen(line) < 100 /\ Head(line) \notin {"-", "*"} THEN line
         ELSE PdfTitleFromLines(Tail(lines), stem))

\* PDFParser._parse_text_content on the text taken out of the file
PdfParseTextContent(text_content, file_name) ==
  IF IsBlank(text_content) THEN Refused
  ELSE With(CleanTextContent(text_content), LAMBDA clean_content :
         Document(PdfTitleFromLines(SplitLines(clean_content), file_name[1]), clean_content,
                  "pdf"))

\* the loop of _extract_title_from_paragraphs over paragraphs[:5]
RECURSIVE FirstShort(_)
FirstShort(paragraphs) ==
  IF paragraphs = <<>> THEN <<>>
  ELSE IF Strip(Head(paragraphs)) # <<>> /\ StrLen(Strip(Head(paragraphs))) < 50
  THEN Strip(Head(paragraphs))
  ELSE FirstShort(Tail(paragraphs))

\* WordParser._extract_title_from_paragraphs over the non-empty paragraphs
WordTitle(paragraphs, file_name) ==
  IF paragraphs = <<>> THEN file_name[1]
  ELSE IF StrLen(Strip(paragraphs[1])) > 100 /\ FirstShort(Take(paragraphs, 5)) # <<>>
  THEN FirstShort(Take(paragraphs, 5))
  ELSE IF Strip(paragraphs[1]) # <<>> THEN Strip(paragraphs[1])
  ELSE file_name[1]

\* WordParser._parse_paragraphs on the paragraphs taken out of the file
WordParseParagraphs(paragraphs, file_name) ==
  IF SelectSeq(paragraphs, LAMBDA p : ~IsBlank(p)) = <<>> THEN Refused
  ELSE Document(WordTitle(SelectSeq(paragraphs, LAMBDA p : ~IsBlank(p)), file_name),
                JoinLines(paragraphs), "word")

\* _parse_prompt_template of every item of data['prompts']: PromptTemplate
\* refuses a blank id, name or content
RECURSIVE PromptTemplatesAccepted(_)
PromptTemplatesAccepted(prompts) ==
  \/ prompts = <<>>
  \/ /\ IsObj(Head(prompts))
     /\ ValidText(DictGet(Head(prompts).v, <<"id">>, JStr(<<>>)))
     /\ ValidText(DictGet(Head(prompts).v, <<"name">>, JStr(<<>>)))
     /\ ValidText(DictGet(Head(prompts).v, <<"content">>, JStr(<<>>)))
     /\ PromptTemplatesAccepted(Tail(prompts))

\* PromptParser.parse of a JSON text whose prompts carry id, name and
\* content: PromptDocument wants a title that is not blank and one prompt
\* at least; the Document takes the title PromptDocument stripped
PromptParse(content) ==
  With(JsonLoads(content), LAMBDA loaded :
    IF ~loaded.ok \/ ~IsObj(loaded.val) THEN Refused
    ELSE With(DictGet(loaded.val.v, <<"prompts">>, JArr(<<>>)), LAMBDA prompts :
         With(DictGet(loaded.val.v, <<"title">>, JStr(<<"Untitled Prompt Document">>)),
              LAMBDA title :
           IF ~Iterable(prompts) \/ ~PromptTemplatesAccepted(IterItems(prompts)) THEN Refused
           ELSE IF IterItems(prompts) = <<>> \/ ~ValidText(title) THEN Refused
           ELSE Document(Strip(title.v), content, "prompt"))))

(* ---------------------------------------------------------------------- *)
(* DatabaseManager and the module-level manager (src/app/core/database.py) *)
(* A manager is a number, 0 standing for None; pools[m] is the _pool of     *)
(* manager m: "none", or a pool that is "open" or "closed" (_closed).      *)
(* ---------------------------------------------------------------------- *)

\* DatabaseManager.is_connected
IsConnected(pool) == pool # "none" /\ pool # "closed"

\* what a caller holds once its call is over; manager 0 is None
Handed(m, ps) ==
  [kind |-> "manager", manager |-> m, connected |-> m # 0 /\ IsConnected(ps[m])]
Thrown(exception) == [kind |-> exception, manager |-> 0, connected |-> FALSE]
NoReturn == [kind |-> "none", manager |-> 0, connected |-> FALSE]

\* a coroutine between two calls
AtRest(c) == [at |-> "rest", fn |-> "none", manager |-> 0, ret |-> NoReturn, calls |-> c.calls]

\* a coroutine suspended at an await of function fn, working on manager m
Awaiting(c, fn, m) ==
  [at |-> "await", fn |-> fn, manager |-> m, ret |-> NoReturn, calls |-> c.calls + 1]

\* a coroutine whose call of fn is over with ret
Over(c, fn, ret, started) ==
  [at |-> "over", fn |-> fn, manager |-> 0, ret |-> ret,
   calls |-> IF started THEN c.calls + 1 ELSE c.calls]

(* ---------------------------------------------------------------------- *)
(* The asynchronous generation tasks (src/app/api/v1/tests.py)            *)
(* A task id is the number of the task, uuid4 giving a fresh one every    *)
(* time; a progress is a number of percent.                               *)
(* ---------------------------------------------------------------------- *)

\* lines 87-96: the record generate_test_cases_async stores
TaskCreated(task_id, request) ==
  [task_id |-> task_id, status |-> "pending", progress |-> 0, message |-> <<"created">>,
   result |-> JNull, request |-> request]

\* a background task that puts the record back to pending
TaskRequeued(record, e) ==
  [record EXCEPT !.status = "pending", !.progress = 0, !.message = <<"created">>]

\* lines 487-490 of _process_test_generation
TaskProcessing(record) ==
  [record EXCEPT !.status = "processing", !.progress = 10, !.message = <<"started">>]

\* lines 507-509: the except branch; progress and result stay as they are
TaskFailed(record, e) ==
  [record EXCEPT !.status = "failed", !.message = <<"failed", e>>]

(* ---------------------------------------------------------------------- *)
(* What the model may answer, and what may be handed to the extractor     *)
(* ---------------------------------------------------------------------- *)

MaxProse == 1
MaxCut == 2
MaxDepth == 1

RequirementMap(id, title, description) ==
  JObj(<<Member(<<"id">>, JStr(id)), Member(<<"title">>, JStr(title)),
         Member(<<"description">>, JStr(description))>>)

AnswerOf(maps) == JsonDumps(JArr(maps))

Id1 == SequentialId(1)
Id2 == SequentialId(2)

TestCasesBlock(cases) == JsonDumps(JObj(<<Member(<<"test_cases">>, JArr(cases))>>))

NegativeCase == JObj(<<Member(<<"name">>, JStr(<<"test_a">>)), Member(<<"type">>, JStr(<<"negative">>))>>)
SecurityCase == JObj(<<Member(<<"name">>, JStr(<<"b">>)), Member(<<"type">>, JStr(<<"security">>))>>)
ListTypeCase == JObj(<<Member(<<"type">>, JArr(<<>>))>>)
NestedCase   == JObj(<<Member(<<"name">>, JStr(<<"test_b">>)), Member(<<"validations">>, JArr(<<>>))>>)

CodeBlock(body) == <<Fence, PythonTag, WS, "import pytest", WS, "def test_">> \o body \o <<WS, Fence>>

\* the texts a model call may return at any stage
Answers ==
  { <<"x", WS, "y">>,
    <<>>,
    AnswerOf(<<RequirementMap(Id1, <<"t">>, <<"d">>)>>),
    AnswerOf(<<JObj(<<Member(<<"id">>, JStr(Id1))>>)>>),
    AnswerOf(<<RequirementMap(Id1, <<"t">>, <<"kwPositive", WS, "kwNegative", WS, "kwBoundary">>)>>),
    AnswerOf(<<RequirementMap(Id1, <<"kwDelete", WS, "t">>, <<"kwNegative">>)>>),
    AnswerOf(<<RequirementMap(Id1, <<"t">>, TestCasesBlock(<<NegativeCase, SecurityCase>>))>>),
    AnswerOf(<<RequirementMap(Id1, <<"t">>, TestCasesBlock(<<ListTypeCase>>))>>),
    AnswerOf(<<RequirementMap(Id1, <<"t">>, TestCasesBlock(<<JNum(<<"1">>)>>))>>),
    AnswerOf(<<RequirementMap(Id1, <<"t">>, TestCasesBlock(<<NestedCase>>))>>),
    AnswerOf(<<RequirementMap(Id1, <<"create">>, <<"kwValidData">>),
               RequirementMap(Id2, <<"t">>, TestCasesBlock(<<NegativeCase>>))>>),
    AnswerOf(<<RequirementMap(Id1, <<"t">>, CodeBlock(<<"codeBody">>))>>),
    AnswerOf(<<RequirementMap(Id1, <<"t">>, CodeBlock(<<>>))>>),
    TestCasesBlock(<<NegativeCase>>) }

\* what _call_ai_api does: it raises (a timeout, an HTTP error) or returns text
ModelCalls ==
  {[raised |-> TRUE, text |-> <<>>]} \cup {[raised |-> FALSE, text |-> t] : t \in Answers}

\* the arrays a model is asked for, before they are nested and wrapped
Bases ==
  << JArr(<<>>),
     JArr(<<JNum(<<"1">>)>>),
     JArr(<<JStr(<<"a">>)>>),
     JArr(<<JNum(<<"1">>), JStr(<<"a">>)>>),
     JArr(<<JArr(<<JNum(<<"1">>)>>), JArr(<<JNum(<<"2">>)>>)>>),
     JArr(<<JObj(<<Member(<<"k">>, JNum(<<"1">>))>>)>>),
     JArr(<<JObj(<<Member(<<"k">>, JArr(<<JNum(<<"1">>)>>))>>)>>) >>

\* an array whose one string spells the reasoning block's tags
SentinelArray == JArr(<<JStr(<<ThinkOpen, ThinkClose>>)>>)

\* v inside d more arrays
RECURSIVE Nest(_, _)
Nest(v, d) == IF d = 0 THEN v ELSE JArr(<<Nest(v, d - 1)>>)

Prose(n) == [i \in 1..n |-> "x"]

Wraps == {"raw", "fence", "fence json", "think", "think fence",
          "prose before", "prose after", "prose around"}

\* the ways a model wraps the text t of the array it was asked for
WrapText(t, wrap, n) ==
  CASE wrap = "raw"          -> t
    [] wrap = "fence"        -> <<Fence, WS>> \o t \o <<WS, Fence>>
    [] wrap = "fence json"   -> <<Fence, JsonTag, WS>> \o t \o <<WS, Fence>>
    [] wrap = "think"        -> <<ThinkOpen, "x", ThinkClose, WS>> \o t
    [] wrap = "think fence"  -> <<ThinkOpen, "x", ThinkClose, WS, Fence, JsonTag, WS>>
                                \o t \o <<WS, Fence>>
    [] wrap = "prose before" -> Prose(n) \o <<WS>> \o t
    [] wrap = "prose after"  -> t \o <<WS>> \o Prose(n)
    [] wrap = "prose around" -> Prose(n) \o <<WS>> \o t \o <<WS>> \o Prose(n)

Embedded(core, wrap, n) ==
  [text |-> WrapText(JsonDumps(core), wrap, n), core |-> core, wrap |-> wrap]

\* an answer that follows the model's reasoning, the reasoning quoting
\* another array; the tag opening the block is there or was left out
Reasoned(thought, core, opened) ==
  [text |-> (IF opened THEN <<ThinkOpen>> ELSE <<>>) \o JsonDumps(thought)
            \o <<WS, ThinkClose, WS>> \o JsonDumps(core),
   core |-> core, wrap |-> IF opened THEN "reasoned" ELSE "unopened"]

\* objects a model may write one after the other instead of an array
Objects ==
  << JObj(<<Member(<<"k">>, JNum(<<"1">>))>>),
     JObj(<<Member(<<"a">>, JStr(<<"s">>))>>),
     JObj(<<Member(<<"k">>, JObj(<<Member(<<"j">>, JNum(<<"1">>))>>))>>),
     JObj(<<>>) >>

\* two objects with prose before and between them, no array around them
Listed(o1, o2, n) ==
  [text |-> Prose(n) \o <<WS>> \o JsonDumps(o1) \o <<WS>> \o Prose(n) \o <<WS>>
            \o JsonDumps(o2),
   core |-> JArr(<<o1, o2>>), wrap |-> "objects"]

\* an answer cut off c symbols before its end
Truncated(core, c) ==
  [text |-> Take(JsonDumps(core), Len(JsonDumps(core)) - c), core |-> JNull,
   wrap |-> "truncated"]

\* batches of requirement maps, some of them with fields missing
Batches ==
  << JArr(<<RequirementMap(Id1, <<"t">>, <<"d">>), RequirementMap(Id2, <<"u">>, <<"e">>)>>),
     JArr(<<JObj(<<Member(<<"title">>, JStr(<<"t">>)), Member(<<"description">>, JStr(<<"d">>))>>),
            JObj(<<Member(<<"title">>, JStr(<<"u">>)), Member(<<"description">>, JStr(<<"e">>))>>)>>),
     JArr(<<RequirementMap(Id1, <<"t">>, <<"d">>), JObj(<<Member(<<"id">>, JStr(Id2))>>)>>),
     JArr(<<JObj(<<Member(<<"id">>, JStr(Id1)), Member(<<"title">>, JStr(<<"t">>))>>),
            RequirementMap(Id2, <<"u">>, <<"e">>)>>),
     JArr(<<JObj(<<Member(<<"id">>, JStr(Id1)), Member(<<"description">>, JStr(<<"d">>))>>),
            RequirementMap(Id2, <<"u">>, <<"e">>)>>),
     JArr(<<JObj(<<Member(<<"title">>, JStr(<<"t">>)), Member(<<"description">>, JStr(<<"d">>))>>),
            RequirementMap(Id1, <<"u">>, <<"e">>)>>),
     JArr(<<RequirementMap(Id2, <<"t">>, <<"d">>),
            JObj(<<Member(<<"title">>, JStr(<<"u">>)), Member(<<"description">>, JStr(<<"e">>))>>)>>) >>

\* texts with no structure in them
Garbage ==
  { <<>>, <<WS>>, <<"x", WS, "y">>, <<Fence>>, <<"]", "x", "[">>,
    <<BigInt>>, <<"x", WS, "[", BigInt, "]">>, <<"x", WS, "{", Q, "k", Q, ":", BigInt, "}">> }

(* ---------------------------------------------------------------------- *)
(* State                                                                  *)
(* ---------------------------------------------------------------------- *)

VARIABLES
  ai_provider,        \* AITestCaseGenerationService.ai_provider
  has_logger,         \* self.logger is not None (USE_LOGURU)
  pc,                 \* where generate_test_suite stands
  api_analysis,       \* the local of generate_test_suite, None until stage 1 returned
  test_strategy,      \* None until stage 2 returned
  test_cases,         \* the validated dicts of stage 3
  test_file_content,  \* the code of stage 4
  result,             \* what generate_test_suite returned, None before
  error,              \* the ValueError generate_test_suite raised, None before
  trace,              \* history: one entry per stage that ran
  doc,                \* extractor run: the text handed in, and how it was built
  phase,              \* extractor run: input, parsed, extracted, reparsed
  first,              \* extractor run: what _parse_ai_response returned
  extracted,          \* extractor run: what extract_async did
  second,             \* extractor run: _parse_ai_response on json.dumps(first.ret)
  cache,              \* SmartDocumentDetector.cache: content hash -> DetectionResult
  callers,            \* the calls of detect_document_type in flight, one per caller
  extractor_built,    \* whether LangChainExtractor(...) can be built in _ai_detection
  written,            \* history: every <<key, result>> stored into the cache
  svc_call,           \* the service or extractor method called, with its arguments
  svc_ret,            \* what that call returned
  db_manager,         \* database.py: the module-level _db_manager, 0 for None
  pools,              \* database.py: the _pool of every DatabaseManager built so far
  db,                 \* database.py: the coroutines calling into the module
  task_storage,       \* api/v1/tests.py: task_storage, task id -> record
  background,         \* api/v1/tests.py: the background tasks FastAPI was handed
  polled              \* history: the statuses get_task_status returned, per task

pipeVars == <<ai_provider, has_logger, pc, api_analysis, test_strategy, test_cases,
              test_file_content, result, error, trace>>
runVars == <<doc, phase, first, extracted, second>>
clsVars == <<cache, callers, extractor_built, written>>
svcVars == <<svc_call, svc_ret>>
dbVars == <<db_manager, pools, db>>
taskVars == <<task_storage, background, polled>>
vars == <<ai_provider, has_logger, pc, api_analysis, test_strategy, test_cases,
          test_file_content, result, error, trace, doc, phase, first, extracted, second,
          cache, callers, extractor_built, written, svc_call, svc_ret,
          db_manager, pools, db, task_storage, background, polled>>

\* what the steps of each part leave alone
besidePipe == <<runVars, clsVars, svcVars, dbVars, taskVars>>
besideRun == <<pipeVars, clsVars, svcVars, dbVars, taskVars>>
besideCls == <<pipeVars, runVars, svcVars, dbVars, taskVars>>
besideSvc == <<pipeVars, runVars, clsVars, dbVars, taskVars>>
besideDb == <<pipeVars, runVars, clsVars, svcVars, taskVars>>
besideTask == <<pipeVars, runVars, clsVars, svcVars, dbVars>>

None == [none |-> TRUE]

NoOutcome == [ret |-> JNull, branch |-> "pending", stdout |-> <<>>]
NoExtraction == [raised |-> FALSE, reqs |-> <<>>, parse |-> "pending", stdout |-> <<>>]

PipeIdle ==
  /\ ai_provider = "gemini" /\ has_logger = TRUE /\ pc = "Pending"
  /\ api_analysis = None /\ test_strategy = None
  /\ test_cases = <<>> /\ test_file_content = <<>>
  /\ result = None /\ error = None /\ trace = <<>>

RunIdle ==
  /\ doc = [text |-> <<>>, core |-> JNull, wrap |-> "none"]
  /\ phase = "idle" /\ first = NoOutcome /\ extracted = NoExtraction /\ second = NoOutcome

\* a detector nobody calls
ClsIdle ==
  /\ cache = <<>> /\ callers = <<>> /\ extractor_built = TRUE /\ written = {}

NotCalled == [op |-> "none"]

SvcIdle == svc_call = NotCalled /\ svc_ret = NotCalled

\* no manager was built and nobody calls database.py
DbIdle == db_manager = 0 /\ pools = <<>> /\ db = <<>>

\* an empty task store
TaskIdle == task_storage = <<>> /\ background = <<>> /\ polled = <<>>

(* ---------------------------------------------------------------------- *)
(* generate_test_suite (service.py lines 97-179)                          *)
(* ---------------------------------------------------------------------- *)

Stages == <<"Analyzing", "Strategizing", "Enumerating", "Generating">>

\* generate_test_suite with the strategy stage left out
NextStageSkipsStrategy(stage) ==
  CASE stage = "Pending"      -> "Analyzing"
    [] stage = "Analyzing"    -> "Enumerating"
    [] stage = "Strategizing" -> "Enumerating"
    [] stage = "Enumerating"  -> "Generating"
    [] stage = "Generating"   -> "Completed"

\* the stage generate_test_suite enters when the stage it is in has returned
NextStage(stage) ==
  CASE stage = "Pending"      -> "Analyzing"
    [] stage = "Analyzing"    -> "Strategizing"
    [] stage = "Strategizing" -> "Enumerating"
    [] stage = "Enumerating"  -> "Generating"
    [] stage = "Generating"   -> "Completed"

\* one history entry: the stage, whether the model call returned, what the
\* repair did with the text, how the stage ended, and where what it made
\* came from
Entry(stage, ex, how, origin) ==
  [stage |-> stage, call |-> IF ex.parse = "not reached" THEN "raised" ELSE "returned",
   parse |-> ex.parse, ended |-> how, origin |-> origin]

\* except Exception as e: raise ValueError(...)  (lines 176-179)
Fail(stage, ex, how) ==
  /\ pc' = "Failed"
  /\ error' = [stage |-> stage, cause |-> how]
  /\ trace' = Append(trace, Entry(stage, ex, how, <<>>))
  /\ UNCHANGED <<ai_provider, has_logger, api_analysis, test_strategy, test_cases,
                 test_file_content, result>>

\* the call: stage 1 runs up to its await; with the mock provider
\* ai_extractor is None and the call raises at once
Start ==
  /\ pc = "Pending"
  /\ IF ai_provider = "mock"
     THEN Fail("Analyzing", NoExtraction, "no extractor")
     ELSE /\ pc' = NextStage(pc)
          /\ UNCHANGED <<ai_provider, has_logger, api_analysis, test_strategy, test_cases,
                         test_file_content, result, error, trace>>
  /\ UNCHANGED besidePipe

\* _analyze_api_document resumes with the model's answer, then stage 2 runs
\* up to its await
AnalyzeDone ==
  /\ pc = "Analyzing"
  /\ \E call \in ModelCalls : \E ex \in {ExtractAsync(call)} :
       IF ex.raised THEN Fail(pc, ex, IF call.raised THEN "call" ELSE "extract")
       ELSE /\ api_analysis' = ConvertRequirementsToAnalysis(ex.reqs)
            /\ pc' = NextStage(pc)
            /\ trace' = Append(trace, Entry(pc, ex, "returned", <<>>))
            /\ UNCHANGED <<ai_provider, has_logger, test_strategy, test_cases,
                           test_file_content, result, error>>
  /\ UNCHANGED besidePipe

\* _generate_test_strategy resumes, then stage 3 runs up to its await
StrategizeDone ==
  /\ pc = "Strategizing"
  /\ \E call \in ModelCalls : \E ex \in {ExtractAsync(call)} :
       IF ex.raised THEN Fail(pc, ex, IF call.raised THEN "call" ELSE "extract")
       ELSE /\ test_strategy' = ConvertRequirementsToStrategy(ex.reqs)
            /\ pc' = NextStage(pc)
            /\ trace' = Append(trace, Entry(pc, ex, "returned", <<>>))
            /\ UNCHANGED <<ai_provider, has_logger, api_analysis, test_cases,
                           test_file_content, result, error>>
  /\ UNCHANGED besidePipe

\* _generate_test_cases resumes (line 297 uses self.logger unguarded), then
\* stage 4 runs up to its await
EnumerateDone ==
  /\ pc = "Enumerating"
  /\ \E call \in ModelCalls : \E ex \in {ExtractAsync(call)} :
     \E conv \in {ConvertRequirementsToTestcases(ex.reqs)} :
       IF ex.raised THEN Fail(pc, ex, IF call.raised THEN "call" ELSE "extract")
       ELSE IF ~has_logger THEN Fail(pc, ex, "no logger")
       ELSE IF conv.raised THEN Fail(pc, ex, "no test cases")
       ELSE /\ test_cases' = conv.test_cases
            /\ pc' = NextStage(pc)
            /\ trace' = Append(trace, Entry(pc, ex, "returned", conv.origin))
            /\ UNCHANGED <<ai_provider, has_logger, api_analysis, test_strategy,
                           test_file_content, result, error>>
  /\ UNCHANGED besidePipe

\* _generate_test_code resumes, _build_test_suite runs and the dict is returned
GenerateDone ==
  /\ pc = "Generating"
  /\ \E call \in ModelCalls : \E ex \in {ExtractAsync(call)} :
     \E code \in {ConvertRequirementsToCode(ex.reqs)} : \E suite \in {BuildTestSuite(test_cases)} :
       IF ex.raised THEN Fail(pc, ex, IF call.raised THEN "call" ELSE "extract")
       ELSE IF CodeRefused(code.test_code) THEN Fail(pc, ex, "no code")
       ELSE IF suite.raised THEN Fail(pc, ex, "no suite")
       ELSE /\ test_file_content' = code.test_code
            /\ result' = [test_suite |-> suite, test_file_content |-> code.test_code,
                          api_analysis |-> api_analysis, test_strategy |-> test_strategy]
            /\ pc' = NextStage(pc)
            /\ trace' = Append(trace, Entry(pc, ex, "returned", <<code.origin>>))
            /\ UNCHANGED <<ai_provider, has_logger, api_analysis, test_strategy,
                           test_cases, error>>
  /\ UNCHANGED besidePipe

Init ==
  /\ ai_provider \in {"gemini", "mock"}
  /\ has_logger \in BOOLEAN
  /\ pc = "Pending"
  /\ api_analysis = None /\ test_strategy = None
  /\ test_cases = <<>> /\ test_file_content = <<>>
  /\ result = None /\ error = None /\ trace = <<>>
  /\ RunIdle /\ ClsIdle /\ SvcIdle /\ DbIdle /\ TaskIdle

Next == Start \/ AnalyzeDone \/ StrategizeDone \/ EnumerateDone \/ GenerateDone

Spec == Init /\ [][Next]_vars

(* ---------------------------------------------------------------------- *)
(* One run of the extractor on one document                              *)
(* ---------------------------------------------------------------------- *)

\* _parse_ai_response(content)
Repair ==
  /\ phase = "input"
  /\ first' = ParseAIResponse(doc.text)
  /\ phase' = "parsed"
  /\ UNCHANGED <<doc, extracted, second>>
  /\ UNCHANGED besideRun

\* extract_async with _call_ai_api returning the document's text
Extract ==
  /\ phase = "parsed"
  /\ extracted' = ExtractAsync([raised |-> FALSE, text |-> doc.text])
  /\ phase' = "extracted"
  /\ UNCHANGED <<doc, first, second>>
  /\ UNCHANGED besideRun

\* _parse_ai_response(json.dumps(result)) on what the first pass returned
RepairAgain ==
  /\ phase = "parsed"
  /\ second' = ParseAIResponse(JsonDumps(first.ret))
  /\ phase' = "reparsed"
  /\ UNCHANGED <<doc, first, extracted>>
  /\ UNCHANGED besideRun

\* the documents an extractor run starts from
RunInit ==
  /\ PipeIdle /\ ClsIdle /\ SvcIdle /\ DbIdle /\ TaskIdle
  /\ \/ \E b \in 1..Len(Bases), d \in 0..MaxDepth, w \in Wraps, n \in 1..MaxProse :
          doc = Embedded(Nest(Bases[b], d), w, n)
     \/ \E b \in 1..Len(Bases), c \in 1..MaxCut :
          c < Len(JsonDumps(Bases[b])) /\ doc = Truncated(Bases[b], c)
     \/ \E b \in 1..Len(Batches) :
          doc = [text |-> JsonDumps(Batches[b]), core |-> Batches[b], wrap |-> "batch"]
     \/ \E t \in Garbage : doc = [text |-> t, core |-> JNull, wrap |-> "garbage"]
     \/ \E w \in {"raw", "think"} :
          doc = [text |-> WrapText(JsonDumps(SentinelArray), w, 1), core |-> SentinelArray,
                 wrap |-> "sentinel"]
     \/ \E t, b \in 1..Len(Bases), opened \in BOOLEAN :
          t # b /\ doc = Reasoned(Bases[t], Bases[b], opened)
     \/ \E i, j \in 1..Len(Objects), n \in 1..MaxProse :
          doc = Listed(Objects[i], Objects[j], n)
  /\ phase = "input" /\ first = NoOutcome /\ extracted = NoExtraction /\ second = NoOutcome

RunNext == Repair \/ Extract \/ RepairAgain

RunSpec == RunInit /\ [][RunNext]_vars

(* ---------------------------------------------------------------------- *)
(* Callers of one SmartDocumentDetector (detect_document_type)            *)
(* ---------------------------------------------------------------------- *)

MaxCalls == 2

Callers == {"a", "b"}

\* one document of each format, with the file name it comes under
Samples ==
  << [format |-> "markdown", filename |-> <<"a", ".md">>,
      content |-> <<"#", WS, "requirement", WS, "feature">>],
     [format |-> "pdf", filename |-> <<"a", ".pdf">>, content |-> <<"x">>],
     [format |-> "word", filename |-> <<"a", ".docx">>, content |-> <<"x">>],
     [format |-> "txt", filename |-> <<"a", ".txt">>, content |-> <<"x">>],
     [format |-> "openapi", filename |-> <<"a", ".json">>,
      content |-> JsonDumps(JObj(<<Member(<<"openapi">>, JStr(<<"3.", "0">>)),
                                   Member(<<"info">>, JObj(<<>>)),
                                   Member(<<"paths">>, JObj(<<>>))>>))],
     [format |-> "swagger", filename |-> <<"a", ".json">>,
      content |-> JsonDumps(JObj(<<Member(<<"swagger">>, JStr(<<"2.", "0">>)),
                                   Member(<<"info">>, JObj(<<>>)),
                                   Member(<<"paths">>, JObj(<<>>))>>))],
     [format |-> "api_markdown", filename |-> <<"a", ".md">>,
      content |-> <<"## GET /", "x", WS, "### Request", WS, "### Response", WS,
                    "Status Code: 200">>],
     [format |-> "api_markdown", filename |-> <<"a", ".md">>,
      content |-> <<"## GET /", "x", WS, "### Request">>],
     [format |-> "prompt", filename |-> <<"a", ".md">>,
      content |-> <<"## Prompt", WS, "Role: system", WS, "Input:">>],
     [format |-> "prompt", filename |-> <<"a", ".json">>,
      content |-> JsonDumps(JObj(<<Member(<<"prompts">>, JArr(<<>>))>>))] >>

\* the names a caller may give with a content
FileNames ==
  {<<"a", ".md">>, <<"a", ".json">>, <<"a", ".JSON">>, <<"a", ".pdf">>, <<"a", ".docx">>,
   <<"a", ".txt">>}

NoResult == [document_type |-> "none", confidence |-> 0, method |-> "none"]

\* lines 72-74: the hash, and the cached result when there is one
Lookup(t) ==
  /\ callers[t].at \in {"idle", "returned"}
  /\ callers[t].calls < MaxCalls
  /\ \E key \in {GetContentHash(callers[t].content)} :
       IF key \in DOMAIN cache
       THEN callers' = [callers EXCEPT ![t].at = "returned", ![t].result = cache[key],
                                       ![t].hit = TRUE, ![t].calls = @ + 1,
                                       ![t].rule = NotAsked, ![t].ai = NotAsked]
       ELSE callers' = [callers EXCEPT ![t].at = "missed", ![t].result = NoResult,
                                       ![t].hit = FALSE, ![t].calls = @ + 1,
                                       ![t].rule = NotAsked, ![t].ai = NotAsked]
  /\ UNCHANGED <<cache, extractor_built, written>>
  /\ UNCHANGED besideCls

\* lines 77-93: rule detection and, below high confidence, the AI detection
Compute(t) ==
  /\ callers[t].at = "missed"
  /\ \E d \in {Detection(callers[t].content, callers[t].filename, extractor_built)} :
       callers' = [callers EXCEPT ![t].at = "computed", ![t].result = d.result,
                                  ![t].rule = d.rule, ![t].ai = d.ai]
  /\ UNCHANGED <<cache, extractor_built, written>>
  /\ UNCHANGED besideCls

\* lines 96-97: the result goes into the cache and to the caller
Store(t) ==
  /\ callers[t].at = "computed"
  /\ cache' = CachePut(cache, GetContentHash(callers[t].content), callers[t].result)
  /\ written' = written \cup {<<GetContentHash(callers[t].content), callers[t].result>>}
  /\ callers' = [callers EXCEPT ![t].at = "returned"]
  /\ UNCHANGED extractor_built
  /\ UNCHANGED besideCls

ClsInit ==
  /\ PipeIdle /\ RunIdle /\ SvcIdle /\ DbIdle /\ TaskIdle
  /\ cache = <<>> /\ written = {}
  /\ extractor_built \in BOOLEAN
  /\ \E i, j \in 1..Len(Samples), f, g \in FileNames :
       callers = [t \in Callers |->
                    [at |-> "idle", calls |-> 0, hit |-> FALSE, result |-> NoResult,
                     rule |-> NotAsked, ai |-> NotAsked,
                     content |-> IF t = "a" THEN Samples[i].content ELSE Samples[j].content,
                     filename |-> IF t = "a" THEN f ELSE g]]

ClsNext == \E t \in Callers : Lookup(t) \/ Compute(t) \/ Store(t)

ClsSpec == ClsInit /\ [][ClsNext]_vars

(* ---------------------------------------------------------------------- *)
(* Calls of the service and of the extractor's batch, accuracy and        *)
(* quality methods                                                        *)
(* ---------------------------------------------------------------------- *)

MaxBatch == 2
MaxExpected == 5
MaxRecords == 5

Id3 == SequentialId(3)

\* what the model call of a document does: it raises, or answers a text
Replies ==
  << [raised |-> FALSE,
      text |-> AnswerOf(<<RequirementMap(Id1, <<"t">>, <<"d">>),
                          RequirementMap(Id2, <<"u">>, <<"e">>)>>)],
     [raised |-> FALSE, text |-> AnswerOf(<<RequirementMap(Id1, <<"t">>, <<"d">>)>>)],
     [raised |-> FALSE,
      text |-> AnswerOf(<<RequirementMap(Id1, <<"t">>, <<"d">>),
                          RequirementMap(Id2, <<"u">>, <<"e">>),
                          RequirementMap(Id3, <<"v">>, <<"f">>)>>)],
     [raised |-> FALSE, text |-> AnswerOf(<<>>)],
     [raised |-> FALSE, text |-> <<"x", WS, "y">>],
     [raised |-> FALSE, text |-> AnswerOf(<<JObj(<<Member(<<"id">>, JStr(Id1))>>)>>)],
     [raised |-> TRUE, text |-> <<>>] >>

Titles == {<<"t1">>, <<"t2">>}

SectionLists ==
  { <<>>,
    <<[title |-> <<"requirement">>]>>,
    <<[title |-> <<"x">>], [title |-> <<"feature">>]>> }

StoryLists == {<<>>, <<<<"s">>>>, <<<<WS>>>>}

ParsedDocuments ==
  {[title |-> t, sections |-> ss, user_stories |-> us, reply |-> Replies[r]] :
     t \in Titles, ss \in SectionLists, us \in StoryLists, r \in 1..Len(Replies)}

BatchDocuments ==
  {[title |-> t, sections |-> <<>>, user_stories |-> <<>>, reply |-> Replies[r]] :
     t \in Titles, r \in 1..Len(Replies)}

\* requirements as validate_extraction_quality may be handed them
QualityRecords ==
  {[id |-> Id1, title |-> t, description |-> d, type |-> <<"functional">>,
    priority |-> <<"medium">>, acceptance_criteria |-> ac] :
     t \in {<<"t">>, <<WS>>}, d \in {<<"d">>, <<>>}, ac \in {<<>>, <<<<"c">>>>}}

\* DocumentParsingService._extract_requirements_from_document
ExtractRequirements ==
  /\ svc_call.op = "extract_requirements" /\ svc_ret = NotCalled
  /\ \E r \in {ExtractRequirementsFromDocument(svc_call.document, ServiceAttributes)} :
       svc_ret' = [op |-> svc_call.op, requirements |-> r.requirements, caught |-> r.caught]
  /\ UNCHANGED svc_call
  /\ UNCHANGED besideSvc

\* LangChainExtractor.extract_batch
Batch ==
  /\ svc_call.op = "extract_batch" /\ svc_ret = NotCalled
  /\ \E r \in {ExtractBatch(svc_call.documents, <<>>, <<>>)} :
       svc_ret' = [op |-> svc_call.op, results |-> r.results, stdout |-> r.stdout]
  /\ UNCHANGED svc_call
  /\ UNCHANGED besideSvc

\* LangChainExtractor.extract_with_accuracy
WithAccuracy ==
  /\ svc_call.op = "extract_with_accuracy" /\ svc_ret = NotCalled
  /\ \E r \in {ExtractWithAccuracy(svc_call.document, svc_call.expected_count)} :
       svc_ret' = [op |-> svc_call.op, raised |-> r.raised, requirements |-> r.requirements,
                   accuracy |-> r.accuracy, extracted_count |-> r.extracted_count,
                   expected_count |-> r.expected_count]
  /\ UNCHANGED svc_call
  /\ UNCHANGED besideSvc

\* LangChainExtractor.validate_extraction_quality
Quality ==
  /\ svc_call.op = "validate_extraction_quality" /\ svc_ret = NotCalled
  /\ \E r \in {ValidateExtractionQuality(svc_call.requirements)} :
       svc_ret' = [op |-> svc_call.op, quality_score |-> r.quality_score, issues |-> r.issues]
  /\ UNCHANGED svc_call
  /\ UNCHANGED besideSvc

SvcInit ==
  /\ PipeIdle /\ RunIdle /\ ClsIdle /\ DbIdle /\ TaskIdle
  /\ svc_ret = NotCalled
  /\ \/ \E d \in ParsedDocuments : svc_call = [op |-> "extract_requirements", document |-> d]
     \/ \E n \in 1..MaxBatch : \E ds \in [1..n -> BatchDocuments] :
          svc_call = [op |-> "extract_batch", documents |-> ds]
     \/ \E d \in BatchDocuments, x \in {NoCount} \cup {Count(n) : n \in 0..MaxExpected} :
          svc_call = [op |-> "extract_with_accuracy", document |-> d, expected_count |-> x]
     \/ \E n \in 0..MaxRecords : \E rs \in [1..n -> QualityRecords] :
          svc_call = [op |-> "validate_extraction_quality", requirements |-> rs]

SvcNext == ExtractRequirements \/ Batch \/ WithAccuracy \/ Quality

SvcSpec == SvcInit /\ [][SvcNext]_vars

(* ---------------------------------------------------------------------- *)
(* The parsers called on one input each, and Document(...) called directly *)
(* ---------------------------------------------------------------------- *)

MaxPrompts == 2

Summary(text) == Member(<<"summary">>, JStr(text))

\* operation objects: complete, without a summary, with a blank summary,
\* with a named parameter, with a parameter that has no name, and null
Operations ==
  << JObj(<<Summary(<<"s">>),
            Member(<<"responses">>, JObj(<<Member(<<"200">>, JObj(<<>>))>>))>>),
     JObj(<<Member(<<"responses">>, JObj(<<>>))>>),
     JObj(<<Summary(<<WS>>)>>),
     JObj(<<Summary(<<WS, "s">>),
            Member(<<"parameters">>, JArr(<<JObj(<<Member(<<"name">>, JStr(<<"id">>))>>)>>))>>),
     JObj(<<Summary(<<"s">>), Member(<<"parameters">>, JArr(<<JObj(<<>>)>>))>>),
     JNull >>

\* path items of two keys, of three, of none that is a method, and null
PathItems ==
  << JObj(<<Member(<<"get">>, Operations[1]), Member(<<"post">>, Operations[1])>>),
     JObj(<<Member(<<"get">>, Operations[1]), Member(<<"post">>, Operations[2])>>),
     JObj(<<Member(<<"get">>, Operations[1]), Member(<<"parameters">>, JArr(<<>>)),
            Member(<<"post">>, Operations[4])>>),
     JObj(<<Member(<<"GET">>, Operations[1]), Member(<<"put">>, Operations[1])>>),
     JObj(<<Member(<<"delete">>, Operations[6]), Member(<<"patch">>, Operations[1])>>),
     JObj(<<Member(<<"head">>, Operations[3]), Member(<<"options">>, Operations[1])>>),
     JObj(<<Member(<<"get">>, Operations[5]), Member(<<"post">>, Operations[1])>>),
     JObj(<<Member(<<"x-internal">>, Operations[1])>>),
     JNull >>

\* info objects: a title, none, a blank one, one with white space around
\* it, an empty one, a number
Infos ==
  << JObj(<<Member(<<"title">>, JStr(<<"T">>))>>),
     JObj(<<>>),
     JObj(<<Member(<<"title">>, JStr(<<WS>>))>>),
     JObj(<<Member(<<"title">>, JStr(<<WS, "T", WS>>))>>),
     JObj(<<Member(<<"title">>, JStr(<<>>))>>),
     JObj(<<Member(<<"title">>, JNum(<<"1">>))>>) >>

VersionKeys == {"openapi", "swagger", "none"}

\* a description of two paths
OpenApiDocument(version_key, info, second_path, item1, item2) ==
  JObj((IF version_key = "none" THEN <<>>
        ELSE <<Member(<<version_key>>,
                      JStr(IF version_key = "swagger" THEN <<"2.", "0">> ELSE <<"3.", "0">>))>>)
       \o <<Member(<<"info">>, Infos[info]),
            Member(<<"paths">>, JObj(<<Member(<<"/", "a">>, PathItems[item1]),
                                       Member(second_path, PathItems[item2])>>))>>)

\* texts that are no JSON object: a YAML scalar, white space, a JSON list
NoDescriptions == {<<"x">>, <<WS>>, <<"[", "]">>}

MarkdownContents ==
  { <<"#", WS, "Heading", NL, "x">>,
    <<"x", NL, WS, "#", WS, "T", WS>>,
    <<"#", NL, "-", WS, "x">>,
    <<"#", "#", NL, "-">>,
    <<WS, NL>>,
    <<>>,
    <<"-", "-", "-", NL, "meta", NL, "-", "-", "-", NL, "x">> }

\* what frontmatter.loads may hand back
Posts ==
  {NoPost} \cup
  {[title |-> t, content |-> c, loaded |-> TRUE] :
     t \in {<<>>, <<"T">>, <<WS>>, <<WS, "T">>},
     c \in {<<>>, <<"x">>, <<"#", WS, "Heading">>, <<NL>>}}

PdfTexts ==
  { <<"Heading", NL, "paragraph">>,
    <<"1", "2", NL, "x">>,
    <<"#", "#", "#", "#", "#", NL, "paragraph">>,
    <<"#", WS, "x", NL, "1", NL, WS, "paragraph">>,
    <<"-", WS, "Heading", NL, NL, "paragraph">>,
    <<"*", "Heading">>,
    <<WS, NL>> }

PdfNames == {<<<<"a">>, ".pdf">>, <<<<WS>>, ".pdf">>}

WordParagraphs ==
  { <<>>,
    << <<>> >>,
    << <<"Heading">>, <<>>, <<"x">> >>,
    << <<>>, <<"paragraph">>, <<"x">> >>,
    << <<"paragraph">>, <<"paragraph">> >>,
    << <<"x", WS, "|", WS, "x">> >> }

WordNames == {<<<<"a">>, ".docx">>, <<<<"a">>, ".doc">>}

PromptTemplates ==
  << JObj(<<Member(<<"id">>, JStr(<<"p1">>)), Member(<<"name">>, JStr(<<"n">>)),
            Member(<<"content">>, JStr(<<"c">>))>>),
     JObj(<<Member(<<"id">>, JStr(<<"p1">>)), Member(<<"name">>, JStr(<<WS>>)),
            Member(<<"content">>, JStr(<<"c">>))>>),
     JObj(<<Member(<<"id">>, JStr(<<"p1">>)), Member(<<"name">>, JStr(<<"n">>))>>),
     JNull >>

\* a prompt document with the info object's title, if any, and n prompts,
\* the first of them PromptTemplates[lead]
PromptDocument(info, lead, n) ==
  JObj(Infos[info].v
       \o <<Member(<<"prompts">>,
                   JArr([i \in 1..n |-> PromptTemplates[IF i = 1 THEN lead ELSE 1]]))>>)

Texts == {<<>>, <<WS>>, <<NL>>, <<WS, NL>>, <<"T">>, <<WS, "T", WS>>, <<NL, "T">>}

DocumentTypes ==
  {"markdown", "pdf", "word", "txt", "openapi", "swagger", "api_markdown", "prompt"}

\* OpenAPIParser.parse
ParseOpenAPI ==
  /\ svc_call.op = "openapi" /\ svc_ret = NotCalled
  /\ svc_ret' = [op |-> svc_call.op, out |-> OpenAPIParse(svc_call.content)]
  /\ UNCHANGED svc_call
  /\ UNCHANGED besideSvc

\* MarkdownParser.parse
ParseMarkdown ==
  /\ svc_call.op = "markdown" /\ svc_ret = NotCalled
  /\ svc_ret' = [op |-> svc_call.op, out |-> MarkdownParse(svc_call.content, svc_call.post)]
  /\ UNCHANGED svc_call
  /\ UNCHANGED besideSvc

\* PDFParser.parse_from_file once the text is out of the file
ParsePdf ==
  /\ svc_call.op = "pdf" /\ svc_ret = NotCalled
  /\ svc_ret' = [op |-> svc_call.op,
                 out |-> PdfParseTextContent(svc_call.text_content, svc_call.file_name)]
  /\ UNCHANGED svc_call
  /\ UNCHANGED besideSvc

\* WordParser.parse_from_file once the paragraphs are out of the file
ParseWord ==
  /\ svc_call.op = "word" /\ svc_ret = NotCalled
  /\ svc_ret' = [op |-> svc_call.op,
                 out |-> WordParseParagraphs(svc_call.paragraphs, svc_call.file_name)]
  /\ UNCHANGED svc_call
  /\ UNCHANGED besideSvc

\* PromptParser.parse
ParsePrompt ==
  /\ svc_call.op = "prompt" /\ svc_ret = NotCalled
  /\ svc_ret' = [op |-> svc_call.op, out |-> PromptParse(svc_call.content)]
  /\ UNCHANGED svc_call
  /\ UNCHANGED besideSvc

\* Document(title=..., content=..., document_type=...) called by a client
Construct ==
  /\ svc_call.op = "Document" /\ svc_ret = NotCalled
  /\ svc_ret' = [op |-> svc_call.op,
                 out |-> Document(svc_call.title, svc_call.content, svc_call.document_type)]
  /\ UNCHANGED svc_call
  /\ UNCHANGED besideSvc

ParseInit ==
  /\ PipeIdle /\ RunIdle /\ ClsIdle /\ DbIdle /\ TaskIdle
  /\ svc_ret = NotCalled
  /\ \/ \E v \in VersionKeys, t \in 1..Len(Infos), p \in {<<"/", "b">>, <<"b">>, <<>>},
          i, j \in 1..Len(PathItems) :
          svc_call = [op |-> "openapi",
                      content |-> JsonDumps(OpenApiDocument(v, t, p, i, j))]
     \/ \E c \in NoDescriptions : svc_call = [op |-> "openapi", content |-> c]
     \/ \E c \in MarkdownContents, post \in Posts :
          svc_call = [op |-> "markdown", content |-> c, post |-> post]
     \/ \E c \in PdfTexts, f \in PdfNames :
          svc_call = [op |-> "pdf", text_content |-> c, file_name |-> f]
     \/ \E ps \in WordParagraphs, f \in WordNames :
          svc_call = [op |-> "word", paragraphs |-> ps, file_name |-> f]
     \/ \E t \in 1..Len(Infos), lead \in 1..Len(PromptTemplates), n \in 0..MaxPrompts :
          svc_call = [op |-> "prompt", content |-> JsonDumps(PromptDocument(t, lead, n))]
     \/ \E t \in Texts, c \in Texts, d \in DocumentTypes :
          svc_call = [op |-> "Document", title |-> t, content |-> c, document_type |-> d]

ParseNext ==
  ParseOpenAPI \/ ParseMarkdown \/ ParsePdf \/ ParseWord \/ ParsePrompt \/ Construct

ParseSpec == ParseInit /\ [][ParseNext]_vars

(* ---------------------------------------------------------------------- *)
(* Coroutines calling the functions of database.py on one event loop: a    *)
(* step runs from one await to the next                                   *)
(* ---------------------------------------------------------------------- *)

MaxDbCalls == 2
MaxManagers == 3

Coroutines == {"a", "b"}

MayCall(c) == db[c].at \in {"rest", "over"} /\ db[c].calls < MaxDbCalls

\* get_database_manager(), also reached through get_database_connection()
\* without a URL: lines 70-72 up to the await of connect(), or line 73 at
\* once when the module already holds a manager
GetDatabaseManager(c) ==
  /\ MayCall(c)
  /\ IF db_manager = 0
     THEN /\ Len(pools) < MaxManagers
          /\ pools' = Append(pools, "none")
          /\ db_manager' = Len(pools) + 1
          /\ db' = [db EXCEPT ![c] = Awaiting(@, "get_database_manager", Len(pools) + 1)]
     ELSE /\ db' = [db EXCEPT
                      ![c] = Over(@, "get_database_manager", Handed(db_manager, pools), TRUE)]
          /\ UNCHANGED <<db_manager, pools>>
  /\ UNCHANGED besideDb

\* get_database_connection(database_url) with a URL: lines 79-80 up to the
\* await of connect()
GetDatabaseConnection(c) ==
  /\ MayCall(c)
  /\ Len(pools) < MaxManagers
  /\ pools' = Append(pools, "none")
  /\ db' = [db EXCEPT ![c] = Awaiting(@, "get_database_connection", Len(pools) + 1)]
  /\ UNCHANGED db_manager
  /\ UNCHANGED besideDb

\* asyncpg.create_pool returns: connect() stores the pool, and the caller
\* returns its own manager (line 81) or the module's manager as it is now
\* (line 73)
PoolCreated(c) ==
  /\ db[c].at = "await" /\ db[c].fn \in {"get_database_manager", "get_database_connection"}
  /\ pools' = [pools EXCEPT ![db[c].manager] = "open"]
  /\ db' = [db EXCEPT ![c] =
              Over(@, @.fn,
                   Handed(IF @.fn = "get_database_connection" THEN @.manager ELSE db_manager,
                          pools'),
                   FALSE)]
  /\ UNCHANGED db_manager
  /\ UNCHANGED besideDb

\* asyncpg.create_pool raises: connect() raises ConnectionError (lines
\* 30-32), which leaves the caller; nothing is undone
PoolRefused(c) ==
  /\ db[c].at = "await" /\ db[c].fn \in {"get_database_manager", "get_database_connection"}
  /\ db' = [db EXCEPT ![c] = Over(@, @.fn, Thrown("ConnectionError"), FALSE)]
  /\ UNCHANGED <<db_manager, pools>>
  /\ UNCHANGED besideDb

\* close_database_connections() up to the await of pool.close() in
\* disconnect(); without a manager, or with one that has no pool, it runs
\* to its end at once
CloseDatabaseConnections(c) ==
  /\ MayCall(c)
  /\ IF db_manager # 0 /\ pools[db_manager] # "none"
     THEN /\ db' = [db EXCEPT ![c] = Awaiting(@, "close_database_connections", db_manager)]
          /\ UNCHANGED db_manager
     ELSE /\ db' = [db EXCEPT ![c] = Over(@, "close_database_connections", NoReturn, TRUE)]
          /\ db_manager' = 0
  /\ UNCHANGED pools
  /\ UNCHANGED besideDb

\* the pool marks itself closed while pool.close() is awaited
PoolMarkedClosed(c) ==
  /\ db[c].at = "await" /\ db[c].fn = "close_database_connections"
  /\ pools[db[c].manager] = "open"
  /\ pools' = [pools EXCEPT ![db[c].manager] = "closed"]
  /\ UNCHANGED <<db_manager, db>>
  /\ UNCHANGED besideDb

\* pool.close() returns: lines 38 and 104
PoolClosed(c) ==
  /\ db[c].at = "await" /\ db[c].fn = "close_database_connections"
  /\ pools' = [pools EXCEPT ![db[c].manager] = "none"]
  /\ db_manager' = 0
  /\ db' = [db EXCEPT ![c] = Over(@, "close_database_connections", NoReturn, FALSE)]
  /\ UNCHANGED besideDb

DbInit ==
  /\ PipeIdle /\ RunIdle /\ ClsIdle /\ SvcIdle /\ TaskIdle
  /\ db_manager = 0 /\ pools = <<>>
  /\ db = [c \in Coroutines |-> AtRest([calls |-> 0])]

DbNext ==
  \E c \in Coroutines :
    \/ GetDatabaseManager(c) \/ GetDatabaseConnection(c) \/ PoolCreated(c) \/ PoolRefused(c)
    \/ CloseDatabaseConnections(c) \/ PoolMarkedClosed(c) \/ PoolClosed(c)

DbSpec == DbInit /\ [][DbNext]_vars

(* ---------------------------------------------------------------------- *)
(* Clients of /tests/generate-async and /tests/status, and the background *)
(* tasks Starlette runs once a response was sent.  Everything runs on one *)
(* event loop: a handler runs while no other coroutine is between two of  *)
(* its statements.                                                        *)
(* ---------------------------------------------------------------------- *)

MaxTasks == 2
MaxPolls == 2

\* what a request asks for, and what _generate_ai_api_tests or
\* _generate_ai_prompt_tests would do with its document
TaskRequests ==
  [test_type : {"api_test", "prompt_test"}, generation : {"succeeds", "raises"}]

\* no background task stands between two statements
LoopFree == \A i \in 1..Len(background) : background[i] # "running"

\* generate_test_cases_async (lines 68-101)
GenerateTestCasesAsync(request) ==
  /\ LoopFree
  /\ Len(task_storage) < MaxTasks
  /\ task_storage' = Append(task_storage, TaskCreated(Len(task_storage) + 1, request))
  /\ background' = Append(background, "queued")
  /\ UNCHANGED polled
  /\ UNCHANGED besideTask

\* get_task_status (lines 104-122): 404 for an id the store does not hold
GetTaskStatus(task_id) ==
  /\ LoopFree
  /\ Len(polled[task_id]) < MaxPolls
  /\ polled' = [polled EXCEPT ![task_id] =
                  Append(@, IF task_id \in DOMAIN task_storage
                            THEN task_storage[task_id].status ELSE "404")]
  /\ UNCHANGED <<task_storage, background>>
  /\ UNCHANGED besideTask

\* _process_test_generation, lines 485-490
ProcessTestGeneration(task_id) ==
  /\ LoopFree
  /\ task_id \in DOMAIN background /\ background[task_id] = "queued"
  /\ task_storage' = [task_storage EXCEPT ![task_id] = TaskProcessing(@)]
  /\ background' = [background EXCEPT ![task_id] = "running"]
  /\ UNCHANGED polled
  /\ UNCHANGED besideTask

\* lines 492-496 and 505-509: neither _generate_api_tests nor
\* _generate_prompt_tests is defined, the call raises NameError before
\* anything is awaited and the except branch records the failure
GenerationUndefined(task_id) ==
  /\ task_id \in DOMAIN background /\ background[task_id] = "running"
  /\ task_storage' = [task_storage EXCEPT ![task_id] = TaskFailed(@, "NameError")]
  /\ background' = [background EXCEPT ![task_id] = "done"]
  /\ UNCHANGED polled
  /\ UNCHANGED besideTask

TaskInit ==
  /\ PipeIdle /\ RunIdle /\ ClsIdle /\ SvcIdle /\ DbIdle
  /\ task_storage = <<>> /\ background = <<>>
  /\ polled = [i \in 1..MaxTasks |-> <<>>]

TaskNext ==
  \/ \E request \in TaskRequests : GenerateTestCasesAsync(request)
  \/ \E task_id \in 1..MaxTasks :
       GetTaskStatus(task_id) \/ ProcessTestGeneration(task_id) \/ GenerationUndefined(task_id)

TaskSpec == TaskInit /\ [][TaskNext]_vars

\* Starlette awaits every background task it was handed
TaskLive ==
  /\ TaskSpec
  /\ \A task_id \in 1..MaxTasks :
       WF_vars(ProcessTestGeneration(task_id)) /\ WF_vars(GenerationUndefined(task_id))

(* ---------------------------------------------------------------------- *)
(* Properties of generate_test_suite, checked under Spec                  *)
(* ---------------------------------------------------------------------- *)

StagePath ==
  { <<"Pending", "Analyzing">>, <<"Analyzing", "Strategizing">>,
    <<"Strategizing", "Enumerating">>, <<"Enumerating", "Generating">>,
    <<"Generating", "Completed">> }

Terminal == {"Completed", "Failed"}

\* C1: every step of a run moves the pipeline one stage on along
\* Pending -> Analyzing -> Strategizing -> Enumerating -> Generating ->
\* Completed, or from a state that is not terminal into Failed; no stage is
\* skipped, repeated or reordered, and a stage is entered only when the
\* output of the stage before it exists.
C1_StagesInOrder ==
  [][ /\ pc' # pc
      /\ \/ <<pc, pc'>> \in StagePath
         \/ pc \notin Terminal /\ pc' = "Failed"
      /\ pc' = "Strategizing" => api_analysis' # None
      /\ pc' = "Enumerating" => api_analysis' # None /\ test_strategy' # None
      /\ pc' = "Generating" => test_strategy' # None /\ test_cases' # <<>>
      /\ pc' = "Completed" =>
            /\ test_cases' # <<>> /\ test_file_content' # <<>> /\ result' # None
            /\ Len(trace') = Len(Stages)
            /\ \A i \in 1..Len(Stages) : trace'[i].stage = Stages[i]
    ]_vars

\* a run that went through the four stages in order and completed
C1_Witness ==
  /\ pc = "Completed"
  /\ Len(trace) = 4
  /\ \A i \in 1..4 : trace[i].stage = Stages[i] /\ trace[i].call = "returned"

\* the stage's entry in the history says the run stopped there
AbortedAt(i) ==
  /\ pc = "Failed" /\ error # None /\ error.stage = trace[i].stage
  /\ Len(trace) = i
  /\ result = None /\ test_file_content = <<>>

ShapeFailures == {"extract", "no test cases", "no code", "no suite"}

\* C2: whenever the repair of a stage's model output fails, or the recovered
\* structure fails the stage's validation, the run is aborted with an error
\* naming that stage, and nothing is returned.
C2_RepairFailureAborts ==
  \A i \in 1..Len(trace) :
    (trace[i].parse = "none" \/ trace[i].ended \in ShapeFailures) => AbortedAt(i)

\* the validated shape of the enumerate stage's output: at least one case,
\* each with a str name that starts with test_
CasesValid ==
  /\ test_cases # <<>>
  /\ \A i \in 1..Len(test_cases) :
       IsStr(test_cases[i].name) /\ StartsWithTest(test_cases[i].name.v)

Synthesized ==
  {k \in 1..Len(test_cases) : Len(trace) >= 3 /\ trace[3].origin[k] = "synthesized"}

\* C4: when test cases were synthesized from the requirements, there is at
\* least one positive, one negative and one boundary case among them, and
\* each of them carries a field, beyond those of a model-made case, that
\* tags it as synthesized.
C4_SynthesizedCoverAllTypes ==
  Synthesized # {} =>
    /\ \A kind \in {"positive", "negative", "boundary"} :
         \E k \in Synthesized : JEq(test_cases[k].type, JStr(<<kind>>))
    /\ \A k \in Synthesized : \E f \in DOMAIN test_cases[k] : f \notin CaseKeys

\* C5: a stage whose model call raised and a stage whose model output could
\* not be repaired end the run the same way: Failed at that stage.
C5_CallFailureLikeRepairFailure ==
  \A i \in 1..Len(trace) :
    /\ trace[i].call = "raised" => AbortedAt(i)
    /\ trace[i].parse = "none" => AbortedAt(i)

(* ---------------------------------------------------------------------- *)
(* Properties of the extractor, checked under RunSpec                     *)
(* ---------------------------------------------------------------------- *)

Returned == phase # "input"

\* the value returned has the snippet in it
Carries(ret, snippet) ==
  \/ IsStr(ret) /\ ret.v = snippet
  \/ IsArr(ret) /\ \E i \in 1..Len(ret.v) : JEq(ret.v[i], JStr(snippet))
  \/ IsObj(ret) /\ \E i \in 1..Len(ret.v) : JEq(ret.v[i][2], JStr(snippet))

\* C6: _parse_ai_response returns for every text, without an exception,
\* and when no candidate parses what it returns is a failure that carries
\* the first 200 characters of the cleaned text.
C6_FailureCarriesSnippet ==
  Returned =>
    /\ first.branch # "raised"
    /\ first.branch = "none"
         => Carries(first.ret, Take(CleanContent(doc.text), SnippetLen))

\* what the caller gets for a well-formed answer with no records in it
ZeroRecords == ParseAIResponse(<<"[", "]">>).ret

\* C7: a repair failure is returned as data the caller can tell from a
\* successful extraction of zero records.
C7_FailureIsNotZeroRecords ==
  (Returned /\ first.branch = "none") => ~JEq(first.ret, ZeroRecords)

\* C8: for a valid array wrapped in prose, code fences or a reasoning block,
\* at any nesting depth, _parse_ai_response returns exactly that array.
C8_ReturnsEmbeddedArray ==
  (Returned /\ doc.wrap \in Wraps) => JEq(first.ret, doc.core)

Succeeded(outcome) == outcome.branch \in {"direct", "array", "objects"}

\* C9: when _parse_ai_response succeeds, applying it to the json.dumps of
\* its result returns the same value.
C9_RepairIdempotent ==
  (phase = "reparsed" /\ Succeeded(first)) => JEq(second.ret, first.ret)

Complete(map) ==
  HasKey(map.v, <<"id">>) /\ HasKey(map.v, <<"title">>) /\ HasKey(map.v, <<"description">>)

\* C10: for a batch of requirement maps of which some lack fields,
\* extract_async does not raise, every map that is complete is returned as
\* a record, and priority, type and criteria, which no map of a batch sets,
\* have their defaults.
C10_IncompleteRecordKeepsBatch ==
  (phase = "extracted" /\ doc.wrap = "batch") =>
    /\ ~extracted.raised
    /\ Len(extracted.reqs) >= Cardinality({i \in 1..Len(doc.core.v) : Complete(doc.core.v[i])})
    /\ \A j \in 1..Len(extracted.reqs) :
         /\ extracted.reqs[j].type = <<"functional">>
         /\ extracted.reqs[j].priority = <<"medium">>
         /\ extracted.reqs[j].acceptance_criteria = <<>>

\* C11: in every list of requirements one extract_async call returns the
\* ids are pairwise distinct, whether a record carries its own id or gets
\* the sequential default.
C11_IdsDistinctInBatch ==
  (phase = "extracted" /\ ~extracted.raised) =>
    \A i, j \in 1..Len(extracted.reqs) :
      i # j => extracted.reqs[i].id # extracted.reqs[j].id

(* ---------------------------------------------------------------------- *)
(* Properties of the detector, checked under ClsSpec                      *)
(* ---------------------------------------------------------------------- *)

Completed(content) == \E w \in written : w[1] = GetContentHash(content)

\* C12: once a classification of some content has completed on a detector,
\* every later call of detect_document_type with the same content returns
\* at the cache lookup with the cached result: it goes through neither the
\* rule detection nor the AI detection.
C12_RepeatedClassificationCached ==
  [][\A t \in Callers :
       (/\ callers'[t].calls = callers[t].calls + 1
        /\ Completed(callers[t].content))
       => /\ callers'[t].at = "returned"
          /\ callers'[t].hit
          /\ callers'[t].result = cache[GetContentHash(callers[t].content)]]_vars

C12_Witness ==
  \E t \in Callers :
    /\ callers[t].at = "returned" /\ callers[t].hit /\ callers[t].calls = 2
    /\ written # {}
    /\ callers[t].result.method = "hybrid_consistent"

\* C13: all the results callers store under one cache key are the same
\* result, so that the cached result and what each caller got do not depend
\* on the order of the writes.
C13_WritesEquivalent ==
  /\ \A w1, w2 \in written : w1[1] = w2[1] => w1[2] = w2[2]
  /\ \A t \in Callers :
       (callers[t].at = "returned" /\ callers[t].calls > 0)
         => callers[t].result = cache[GetContentHash(callers[t].content)]

SampleOf(content, filename) ==
  {i \in 1..Len(Samples) : Samples[i].content = content /\ Samples[i].filename = filename}

\* C14: a sample of a format, classified under its own file name, comes out
\* with that format and a confidence of at least 0.5.
C14_SampleClassifiedAsItsFormat ==
  \A t \in Callers :
    callers[t].at = "computed" =>
      \A i \in SampleOf(callers[t].content, callers[t].filename) :
        /\ callers[t].result.document_type = Samples[i].format
        /\ callers[t].result.confidence >= 5000

(* ---------------------------------------------------------------------- *)
(* Properties of the service and of the extractor's batch, accuracy and   *)
(* quality methods, checked under SvcSpec                                 *)
(* ---------------------------------------------------------------------- *)

\* C15: no failure in requirement extraction is caught and replaced by a
\* normal-looking result: _extract_requirements_from_document returns
\* requirements only when nothing failed on the way, and extract_batch
\* returns lists only for documents whose extraction did not fail.
C15_NoFailureSwallowed ==
  /\ svc_ret.op = "extract_requirements" => svc_ret.caught = "none"
  /\ svc_ret.op = "extract_batch" => svc_ret.stdout = <<>>

Fails(document) == ExtractAsync(document.reply).raised

Alone(document) == ExtractAsync(document.reply).reqs

\* C16 as claimed: when the extraction of one document of a batch fails,
\* every other document has its own entry in the mapping, equal to what
\* extracting it alone returns.
C16_EveryOtherDocumentHasItsEntry ==
  (svc_ret.op = "extract_batch"
   /\ \E j \in 1..Len(svc_call.documents) : Fails(svc_call.documents[j]))
  => \A i \in 1..Len(svc_call.documents) :
       ~Fails(svc_call.documents[i])
         => /\ svc_call.documents[i].title \in DOMAIN svc_ret.results
            /\ svc_ret.results[svc_call.documents[i].title] = Alone(svc_call.documents[i])

LastOfItsTitle(i) ==
  \A j \in 1..Len(svc_call.documents) :
    j > i => svc_call.documents[j].title # svc_call.documents[i].title

\* C16: a failure while extracting one document does not abort the batch:
\* the mapping has one entry per title of the batch, and the entry of a
\* title is what extracting the last document of that title alone returns,
\* or the empty list when that extraction fails; documents that share
\* their title share that one entry.
C16_BatchIsolatesFailures ==
  svc_ret.op = "extract_batch"
  => /\ DOMAIN svc_ret.results =
          {svc_call.documents[i].title : i \in 1..Len(svc_call.documents)}
     /\ \A i \in 1..Len(svc_call.documents) :
          LastOfItsTitle(i)
            => svc_ret.results[svc_call.documents[i].title] =
                 IF Fails(svc_call.documents[i]) THEN <<>> ELSE Alone(svc_call.documents[i])

C16_Witness ==
  /\ svc_ret.op = "extract_batch"
  /\ Len(svc_call.documents) = 2
  /\ svc_call.documents[1].title # svc_call.documents[2].title
  /\ Fails(svc_call.documents[1])
  /\ svc_ret.stdout = <<svc_call.documents[1].title>>
  /\ svc_ret.results[svc_call.documents[2].title] # <<>>

FracEq(a, b) == a[1] * b[2] = b[1] * a[2]

\* C17: the accuracy extract_with_accuracy returns is min(extracted /
\* expected, 1) when an expected count above 0 is given, 0 when the expected
\* count is 0 and 1 when none is given; it is between 0 and 1, and 3
\* extracted of 5 expected is 0.6.
C17_AccuracyFormula ==
  (svc_ret.op = "extract_with_accuracy" /\ ~svc_ret.raised)
  => /\ FracLeq(<<0, 1>>, svc_ret.accuracy) /\ FracLeq(svc_ret.accuracy, <<1, 1>>)
     /\ svc_ret.extracted_count = Len(Alone(svc_call.document))
     /\ ~svc_call.expected_count.given => FracEq(svc_ret.accuracy, <<1, 1>>)
     /\ (svc_call.expected_count.given /\ svc_call.expected_count.n = 0)
          => FracEq(svc_ret.accuracy, <<0, 1>>)
     /\ (svc_call.expected_count.given /\ svc_call.expected_count.n > 0)
          => IF svc_ret.extracted_count <= svc_call.expected_count.n
             THEN FracEq(svc_ret.accuracy,
                         <<svc_ret.extracted_count, svc_call.expected_count.n>>)
             ELSE FracEq(svc_ret.accuracy, <<1, 1>>)
     /\ (svc_ret.extracted_count = 3 /\ svc_call.expected_count = Count(5))
          => FracEq(svc_ret.accuracy, <<6, 10>>)

C17_Witness ==
  /\ svc_ret.op = "extract_with_accuracy" /\ ~svc_ret.raised
  /\ svc_ret.extracted_count = 3 /\ svc_call.expected_count = Count(2)
  /\ svc_ret.accuracy = <<1, 1>>

Missing(requirements, field) ==
  Cardinality({i \in 1..Len(requirements) :
                 IF field = "acceptance_criteria" THEN requirements[i][field] = <<>>
                 ELSE Strip(requirements[i][field]) = <<>>})

\* the score of the specification's formula, in hundredths
FormulaScore(requirements) ==
  Max(0, 100 - 10 * Missing(requirements, "title") - 10 * Missing(requirements, "description")
           - 5 * Missing(requirements, "acceptance_criteria"))

\* C18 as claimed: for a batch of any size the quality score is 1.0 less 0.1
\* per record without title, 0.1 per record without description and 0.05
\* per record without acceptance criteria, floored at 0.0.
C18_QualityForEveryBatch ==
  svc_ret.op = "validate_extraction_quality"
  => svc_ret.quality_score = FormulaScore(svc_call.requirements)

\* C18: for a batch of at least one record the quality score is 1.0 less
\* 0.1 per record without title, 0.1 per record without description and
\* 0.05 per record without acceptance criteria, floored at 0.0; for the
\* empty batch the score is 0.0, with one issue reported.
C18_QualityOfNonEmptyBatch ==
  svc_ret.op = "validate_extraction_quality"
  => IF svc_call.requirements = <<>>
     THEN svc_ret.quality_score = 0 /\ svc_ret.issues = 1
     ELSE svc_ret.quality_score = FormulaScore(svc_call.requirements)

C18_Witness ==
  /\ svc_ret.op = "validate_extraction_quality"
  /\ Len(svc_call.requirements) = 5
  /\ Missing(svc_call.requirements, "title") = 5
  /\ Missing(svc_call.requirements, "description") = 5
  /\ Missing(svc_call.requirements, "acceptance_criteria") = 5
  /\ svc_ret.quality_score = 0

(* ---------------------------------------------------------------------- *)
(* Properties of the parsers and of Document, checked under ParseSpec     *)
(* ---------------------------------------------------------------------- *)

\* the path-item keys that name an HTTP method, as <<path index, key index>>
MethodKeys(paths_data) ==
  UNION {{<<i, j>> : j \in {k \in 1..Len(paths_data[i][2].v) :
                              IsHttpMethod(KeyLower(paths_data[i][2].v[k][1]))}} :
         i \in {n \in 1..Len(paths_data) : IsObj(paths_data[n][2])}}

\* an OpenAPI or Swagger description: the version key, an info object with
\* a title, paths that start with a slash and hold objects, each method key
\* holding an operation object, one operation at least
ApiDescription(data) ==
  /\ IsObj(data)
  /\ HasKey(data.v, <<"openapi">>) \/ HasKey(data.v, <<"swagger">>)
  /\ IsObj(DictGet(data.v, <<"info">>, JNull))
  /\ ValidText(DictGet(DictGet(data.v, <<"info">>, JNull).v, <<"title">>, JNull))
  /\ IsObj(DictGet(data.v, <<"paths">>, JNull))
  /\ \A i \in 1..Len(DictGet(data.v, <<"paths">>, JNull).v) :
       With(DictGet(data.v, <<"paths">>, JNull).v[i], LAMBDA member :
         /\ StartsWith(member[1], <<"/">>)
         /\ IsObj(member[2])
         /\ \A k \in 1..Len(member[2].v) :
              IsHttpMethod(KeyLower(member[2].v[k][1])) => IsObj(member[2].v[k][2]))
  /\ MethodKeys(DictGet(data.v, <<"paths">>, JNull).v) # {}

\* the endpoints of a returned Document stand one to one for the method keys
OneEndpointPerMethodKey(paths_data, endpoints) ==
  /\ Len(endpoints) = Cardinality(MethodKeys(paths_data))
  /\ \A ij \in MethodKeys(paths_data) :
       Cardinality({e \in 1..Len(endpoints) :
                      /\ endpoints[e].path = paths_data[ij[1]][1]
                      /\ endpoints[e].method =
                           http_methods[KeyLower(paths_data[ij[1]][2].v[ij[2]][1])[1]]}) = 1

\* C19: for every OpenAPI or Swagger description the parser returns exactly
\* one endpoint for each (path, key) pair whose key is one of the seven HTTP
\* methods, and none for any other path-item key: two paths of two methods
\* each give four endpoints.
C19_OneEndpointForEachMethodKey ==
  (svc_call.op = "openapi" /\ svc_ret # NotCalled) =>
    With(JsonLoads(svc_call.content), LAMBDA loaded :
      (loaded.ok /\ ApiDescription(loaded.val)) =>
        /\ svc_ret.out.ok
        /\ OneEndpointPerMethodKey(DictGet(loaded.val.v, <<"paths">>, JNull).v,
                                   svc_ret.out.endpoints))

ParserOps == {"openapi", "markdown", "pdf", "word", "prompt"}

\* C20: every Document a parser returns has a title and a content that are
\* neither empty nor white space only, and Document(...) called with an
\* empty or white-space-only title or content fails.
C20_DocumentHasTitleAndContent ==
  (svc_call.op \in ParserOps \cup {"Document"} /\ svc_ret # NotCalled) =>
    /\ svc_ret.out.ok => ~IsBlank(svc_ret.out.title) /\ ~IsBlank(svc_ret.out.content)
    /\ (svc_call.op = "Document" /\ (IsBlank(svc_call.title) \/ IsBlank(svc_call.content)))
         => ~svc_ret.out.ok

\* a parser handed Document(...) a title with white space around it and
\* returned the Document, its title stripped
C20_Witness ==
  /\ svc_call.op = "openapi" /\ svc_ret # NotCalled
  /\ svc_ret.out.ok
  /\ svc_ret.out.title = <<"T">>
  /\ FindSeqFrom(svc_call.content, <<Q, WS, "T", WS, Q>>, 1) > 0

(* ---------------------------------------------------------------------- *)
(* Properties of database.py, checked under DbSpec                        *)
(* ---------------------------------------------------------------------- *)

\* C21: every manager get_database_connection() or get_database_manager()
\* returns is connected when it is returned, whatever calls came before or
\* run at the same time, a failed connection attempt included; a failed
\* attempt reaches its caller as ConnectionError.
C21_ReturnedManagerIsConnected ==
  \A c \in Coroutines :
    (db[c].at = "over" /\ db[c].fn \in {"get_database_manager", "get_database_connection"}) =>
      \/ db[c].ret.kind = "ConnectionError"
      \/ db[c].ret.kind = "manager" /\ db[c].ret.connected

(* ---------------------------------------------------------------------- *)
(* Properties of the repair engine's cleaning and object scan (RunSpec)   *)
(* ---------------------------------------------------------------------- *)

\* the text that follows the first closing tag of a reasoning block
AfterThinkClose(c) == Drop(c, FindFrom(c, ThinkClose, 1))

\* C22: when the output holds a closing reasoning-block tag, everything up
\* to and including it is discarded before any parse attempt: what is
\* returned is what the text after the tag alone gives (a text that opens
\* no reasoning block of its own, so that nothing more is cut from it).
C22_NothingBeforeThinkCloseIsParsed ==
  (/\ phase # "input"
   /\ Contains(doc.text, ThinkClose)
   /\ ~Contains(AfterThinkClose(doc.text), ThinkOpen)) =>
    JEq(first.ret, ParseAIResponse(AfterThinkClose(doc.text)).ret)

\* C23: when neither the direct parse nor the array scan gives a value, the
\* objects written in the text, objects holding objects included, are each
\* parsed on their own and all returned, in their order, as one array.
C23_EveryObjectSpanIsReturned ==
  (phase # "input" /\ doc.wrap = "objects") =>
    (first.branch = "objects" /\ JEq(first.ret, doc.core))

(* ---------------------------------------------------------------------- *)
(* Properties of the detector's escalation (ClsSpec)                      *)
(* ---------------------------------------------------------------------- *)

\* caller t holds a result its own call computed
Detected(t) == callers[t].at \in {"computed", "returned"} /\ ~callers[t].hit

\* C24: when the rule confidence is at or above the high threshold the call
\* returns the rule result as it is, format, confidence and method, and the
\* AI detection is not run.
C24_HighConfidenceKeepsRuleResult ==
  \A t \in Callers :
    (Detected(t) /\ callers[t].rule.confidence >= HIGH_CONFIDENCE) =>
      /\ callers[t].result = callers[t].rule
      /\ callers[t].result.method = "rule"
      /\ callers[t].ai = NotAsked

C24_Witness ==
  \E t \in Callers :
    /\ Detected(t) /\ callers[t].at = "returned"
    /\ callers[t].rule.confidence >= HIGH_CONFIDENCE
    /\ callers[t].result.document_type = "openapi"

Medium(t) ==
  /\ Detected(t)
  /\ callers[t].rule.confidence >= MEDIUM_CONFIDENCE
  /\ callers[t].rule.confidence < HIGH_CONFIDENCE

\* the result that prefers source p, discounted by a tenth
Preferred(p, method) ==
  [document_type |-> p.document_type, confidence |-> (p.confidence * 9) \div 10,
   method |-> method]

\* C25: at medium rule confidence the AI detection runs and the two results
\* are combined: on the same format the confidence is
\* min(average + 0.2, 1.0) and the method hybrid_consistent; on different
\* formats the source of higher confidence gives the format and its
\* confidence less a tenth, the method naming it as preferred.
C25_MediumConfidenceCombines ==
  \A t \in Callers :
    Medium(t) =>
      /\ callers[t].ai # NotAsked
      /\ IF callers[t].rule.document_type = callers[t].ai.document_type
         THEN callers[t].result =
                [document_type |-> callers[t].rule.document_type,
                 confidence |-> Min((callers[t].rule.confidence + callers[t].ai.confidence)
                                      \div 2 + 2000, 10000),
                 method |-> "hybrid_consistent"]
         ELSE IF callers[t].ai.confidence > callers[t].rule.confidence
         THEN callers[t].result = Preferred(callers[t].ai, "hybrid_ai_preferred")
         ELSE callers[t].result = Preferred(callers[t].rule, "hybrid_rule_preferred")

C25_Witness ==
  \E t, u \in Callers :
    /\ Medium(t) /\ callers[t].result.method = "hybrid_consistent"
    /\ Medium(u) /\ callers[u].result.method \in {"hybrid_ai_preferred", "hybrid_rule_preferred"}
    /\ callers[u].result.document_type # callers[u].rule.document_type
       \/ callers[u].result.document_type # callers[u].ai.document_type

\* C27: the rule confidence of every content and file name lies between
\* 0.5 and 1.0, so no call takes the low-confidence branch: no result is
\* tagged uncertain and none is the AI result alone.
C27_RuleConfidenceNeverLow ==
  \A t \in Callers :
    /\ Detected(t) =>
         /\ callers[t].rule.confidence >= MEDIUM_CONFIDENCE
         /\ callers[t].rule.confidence <= 10000
    /\ callers[t].at \in {"computed", "returned"} =>
         callers[t].result.method \notin {"uncertain", "ai", "ai_failed"}

C27_Witness ==
  \E t \in Callers :
    /\ Detected(t) /\ ~extractor_built
    /\ callers[t].rule.confidence = MEDIUM_CONFIDENCE
    /\ callers[t].ai.method = "ai_failed"

(* ---------------------------------------------------------------------- *)
(* Properties of the task store (TaskSpec, TaskLive)                      *)
(* ---------------------------------------------------------------------- *)

\* the moves of a status that go forward
StatusMoves ==
  {<<"pending", "processing">>, <<"processing", "completed">>, <<"processing", "failed">>}

\* C28: the status of every stored task only moves pending -> processing ->
\* completed or pending -> processing -> failed, never backwards, and a
\* completed or failed task never changes, whatever creations, background
\* runs and status queries interleave.
C28_StatusOnlyMovesForward ==
  [][\A task_id \in DOMAIN task_storage :
       /\ task_id \in DOMAIN task_storage'
       /\ \/ task_storage'[task_id] = task_storage[task_id]
          \/ <<task_storage[task_id].status, task_storage'[task_id].status>> \in StatusMoves]_vars

C28_Witness ==
  \E task_id \in DOMAIN task_storage :
    /\ task_storage[task_id].status = "failed"
    /\ polled[task_id] = <<"pending", "failed">>
    /\ \E other \in DOMAIN task_storage : task_storage[other].status = "pending"

\* the task is over as a success
CompletedWithResult(task_id) ==
  /\ task_storage[task_id].status = "completed"
  /\ task_storage[task_id].progress = 100
  /\ ~IsNull(task_storage[task_id].result)

\* C29: every task of generate-async whose generation can succeed reaches
\* completed in the end, with progress 100 and a result that is not null;
\* a task is failed only when its generation raises.
C29_GenerationThatCanSucceedCompletes ==
  \A task_id \in 1..MaxTasks :
    /\ (task_id \in DOMAIN task_storage
          /\ task_storage[task_id].request.generation = "succeeds")
         ~> (task_id \in DOMAIN task_storage /\ CompletedWithResult(task_id))
    /\ [](task_id \in DOMAIN task_storage /\ task_storage[task_id].status = "failed"
            => task_storage[task_id].request.generation = "raises")

(* ---------------------------------------------------------------------- *)
(* Properties of the suite generate_test_suite returns (Spec)             *)
(* ---------------------------------------------------------------------- *)

\* the number of test cases of the suite whose test_type is kind
SuiteCount(suite, kind) ==
  Cardinality({i \in 1..Len(suite.test_cases) : suite.test_cases[i].test_type = kind})

\* C30: in every suite _build_test_suite builds, positive_tests,
\* negative_tests and boundary_tests are the numbers of its test cases of
\* test_type positive, negative and boundary, and they add up to
\* total_tests.
C30_SuiteCountsMatchTestTypes ==
  result # None =>
    /\ result.test_suite.positive_tests = SuiteCount(result.test_suite, "positive")
    /\ result.test_suite.negative_tests = SuiteCount(result.test_suite, "negative")
    /\ result.test_suite.boundary_tests = SuiteCount(result.test_suite, "boundary")
    /\ result.test_suite.positive_tests + result.test_suite.negative_tests
         + result.test_suite.boundary_tests = result.test_suite.total_tests

====
